---- MODULE Spec2Model ----
(***************************************************************************)
(* A model of the logging / security-observability core of nx-project:     *)
(*   - IPTracker            (ip-tracker, src/unnamed/part_005)             *)
(*   - WinstonLoggerService (winston-logger.service.ts)                    *)
(*   - ExtendedLoggerService(src/unnamed/part_003)                         *)
(*   - DataSanitizer        (data-sanitizer.ts, masking policy part_007)   *)
(* Times are milliseconds, as in the source.                               *)
(***************************************************************************)
EXTENDS Integers, Sequences, FiniteSets, TLC

(***************************************************************************)
(* Program constants of IPTracker.  The three capacities are scaled down   *)
(* so that the model reaches them (source values in the comments); the     *)
(* thresholds and time windows keep their source values.                   *)
(***************************************************************************)
MAX_IPS == 2
    \* source: 100000
IP_TTL == 86400000
MAX_LOGS == 12
    \* source: 10000
FAILED_LOGIN_THRESHOLD == 5
RATE_LIMIT_WINDOW == 60000
RATE_LIMIT_MAX == 6
    \* source: 100
BRUTE_FORCE_WINDOW == 300000

(***************************************************************************)
(* Bounds of the model.                                                    *)
(***************************************************************************)
MaxSteps == 3
    \* free environment steps of Spec
MaxExtra == 1
    \* free environment steps interleaved with a scenario of SpecScen
MaxTicks == 1
    \* wall-clock advances (each of TickStep)
PER_SET_CAP == 2
    \* the per-IP set cap of the specification (default 256), scaled
USER_IP_HISTORY_CAP == 2
    \* the per-user history bound of the specification (default 32), scaled
MaxEmits == 1
    \* calls of emitting methods on the logger
MaxNest == 2
    \* run calls on the stack of an execution
MaxCustom == 1
    \* custom rules of a policy
MaxAfter == 1
    \* free environment steps of SpecScore, after the traffic

IP1 == "1.1.1.1"
IP2 == "2.2.2.2"
IP3 == "3.3.3.3"
IPs == {IP1, IP2, IP3}
NoUser == ""
    \* an absent userId / userAgent: JavaScript tests them for truthiness

VARIABLES
    ipStats,         \* Map<string, IPStatistics>, in insertion order
    accessLogs,      \* IPAccessLog[]
    blockedIPs,      \* Set<string>
    whitelistedIPs,  \* Set<string>
    userIPHistory,   \* Map<string, Set<string>>
    now,             \* Date.now()
    ret,             \* the last call: its name, its arguments, what it returned
    fed,             \* every event handed to trackAccess so far, in order
    script,          \* the events the scenario still has to feed
    budget,          \* free environment steps left
    store,           \* AsyncLocalStorage.getStore() of the running context
    policy,          \* defaultSanitizer's MaskingPolicy
    sink,            \* the calls made on the winston logger, in order
    emitted,         \* the last call on the logger service and its arguments
    scopes,          \* the stores the enclosing run calls restore, innermost last
    tasks,           \* the suspended executions: their store and their scopes
    running,         \* the execution that runs
    maxDepth,        \* defaultSanitizer's maxDepth
    lastIndex,       \* the lastIndex of each global pattern of the rules
    san,             \* the last call on the sanitizer: its argument, what it returned
    maskingRules,    \* the DEFAULT_MASKING_RULES array, as it is now
    sanitizers       \* the DataSanitizer instances built with a policy of their own

trackerVars == <<ipStats, accessLogs, blockedIPs, whitelistedIPs, userIPHistory>>
trackVars == <<trackerVars, now, ret, fed, script, budget>>
loggerVars == <<store, policy, sink, emitted>>
ctxVars == <<scopes, tasks, running>>
sanVars == <<maxDepth, lastIndex, san>>
ruleVars == <<maskingRules, sanitizers>>
vars == <<ipStats, accessLogs, blockedIPs, whitelistedIPs, userIPHistory,
          now, ret, fed, script, budget, store, policy, sink, emitted,
          scopes, tasks, running, maxDepth, lastIndex, san,
          maskingRules, sanitizers>>

(***************************************************************************)
(* IPAccessLog                                                             *)
(***************************************************************************)
AccessLog(ip, ts, endpoint, userId, userAgent, success) ==
    [ip |-> ip, timestamp |-> ts, endpoint |-> endpoint, userId |-> userId,
     userAgent |-> userAgent, success |-> success]

NoLog == AccessLog("", 0, "", NoUser, NoUser, TRUE)

(***************************************************************************)
(* Map helpers: ipStats is the sequence of the Map's entries.              *)
(***************************************************************************)
StatsIPs(stats) == {stats[i].ip : i \in 1..Len(stats)}

StatsIndex(stats, ip) == CHOOSE i \in 1..Len(stats) : stats[i].ip = ip

getIPStats(stats, ip) == stats[StatsIndex(stats, ip)]

SelectSet(seq, S) == SelectSeq(seq, LAMBDA x : x \in S)

(***************************************************************************)
(* calculateSuspiciousScore: failureRate > 0.5 is 2*failed > total and     *)
(* failureRate > 0.3 is 10*failed > 3*total (totalRequests >= 1 here).     *)
(***************************************************************************)
Min(a, b) == IF a < b THEN a ELSE b

\* a variant that adds to the score the entry had
calculateSuspiciousScoreCumulative(stats) ==
    LET rate == IF 2 * stats.failedRequests > stats.totalRequests THEN 30
                ELSE IF 10 * stats.failedRequests > 3 * stats.totalRequests THEN 15
                ELSE 0
        uas == IF Cardinality(stats.userAgents) > 10 THEN 20 ELSE 0
        uids == IF Cardinality(stats.userIds) > 5 THEN 25 ELSE 0
        vol == IF stats.totalRequests > 1000 THEN 15 ELSE 0
        eps == IF Cardinality(stats.endpoints) > 50 THEN 10 ELSE 0
    IN  Min(stats.suspiciousScore + rate + uas + uids + vol + eps, 100)

calculateSuspiciousScore(stats) ==
    LET rate == IF 2 * stats.failedRequests > stats.totalRequests THEN 30
                ELSE IF 10 * stats.failedRequests > 3 * stats.totalRequests THEN 15
                ELSE 0
        uas == IF Cardinality(stats.userAgents) > 10 THEN 20 ELSE 0
        uids == IF Cardinality(stats.userIds) > 5 THEN 25 ELSE 0
        vol == IF stats.totalRequests > 1000 THEN 15 ELSE 0
        eps == IF Cardinality(stats.endpoints) > 50 THEN 10 ELSE 0
    IN  Min(rate + uas + uids + vol + eps, 100)

(***************************************************************************)
(* updateStatistics: the new ipStats and userIPHistory.                    *)
(***************************************************************************)
\* a variant that stamps a new entry one millisecond late
NewStatsLate(log) ==
    [ip |-> log.ip, totalRequests |-> 0, failedRequests |-> 0, successRequests |-> 0,
     firstSeen |-> log.timestamp + 1, lastSeen |-> log.timestamp,
     endpoints |-> {}, userAgents |-> {}, userIds |-> {}, suspiciousScore |-> 0]

NewStats(log) ==
    [ip |-> log.ip, totalRequests |-> 0, failedRequests |-> 0, successRequests |-> 0,
     firstSeen |-> log.timestamp, lastSeen |-> log.timestamp,
     endpoints |-> {}, userAgents |-> {}, userIds |-> {}, suspiciousScore |-> 0]

\* a variant that leaves failed requests out of the total
BumpStatsSuccessOnly(s, log) ==
    LET s1 == [s EXCEPT !.totalRequests = IF log.success THEN @ + 1 ELSE @,
                        !.lastSeen = log.timestamp,
                        !.endpoints = @ \cup {log.endpoint},
                        !.userAgents = IF log.userAgent # NoUser
                                       THEN @ \cup {log.userAgent} ELSE @,
                        !.userIds = IF log.userId # NoUser
                                    THEN @ \cup {log.userId} ELSE @,
                        !.successRequests = IF log.success THEN @ + 1 ELSE @,
                        !.failedRequests = IF log.success THEN @ ELSE @ + 1]
    IN  [s1 EXCEPT !.suspiciousScore = calculateSuspiciousScore(s1)]

BumpStats(s, log) ==
    LET s1 == [s EXCEPT !.totalRequests = @ + 1,
                        !.lastSeen = log.timestamp,
                        !.endpoints = @ \cup {log.endpoint},
                        !.userAgents = IF log.userAgent # NoUser
                                       THEN @ \cup {log.userAgent} ELSE @,
                        !.userIds = IF log.userId # NoUser
                                    THEN @ \cup {log.userId} ELSE @,
                        !.successRequests = IF log.success THEN @ + 1 ELSE @,
                        !.failedRequests = IF log.success THEN @ ELSE @ + 1]
    IN  [s1 EXCEPT !.suspiciousScore = calculateSuspiciousScore(s1)]

updateStatisticsStats(stats, log) ==
    IF log.ip \in StatsIPs(stats)
    THEN [stats EXCEPT ![StatsIndex(stats, log.ip)] = BumpStats(@, log)]
    ELSE Append(stats, BumpStats(NewStats(log), log))

updateStatisticsHistory(hist, log) ==
    IF log.userId = NoUser THEN hist
    ELSE IF log.userId \in DOMAIN hist
    THEN [hist EXCEPT ![log.userId] = @ \cup {log.ip}]
    ELSE [u \in DOMAIN hist \cup {log.userId} |->
            IF u = log.userId THEN {log.ip} ELSE hist[u]]

(***************************************************************************)
(* The push onto accessLogs and the shift of the oldest entry.             *)
(***************************************************************************)
\* mutant: a full ring drops the newest entry
pushLogDropNewest(logs, log) ==
    LET pushed == Append(logs, log)
    IN  IF Len(pushed) > MAX_LOGS THEN SubSeq(pushed, 1, MAX_LOGS) ELSE pushed

pushLog(logs, log) ==
    LET pushed == Append(logs, log)
    IN  IF Len(pushed) > MAX_LOGS THEN Tail(pushed) ELSE pushed

(***************************************************************************)
(* SecurityAlert.  description is carried by its parts (count, previous    *)
(* IPs); shouldBlock is FALSE where the source leaves it undefined.        *)
(***************************************************************************)
Alert(type, severity, ip, userId, ts, count, previousIPs, shouldBlock) ==
    [type |-> type, severity |-> severity, ip |-> ip, userId |-> userId,
     timestamp |-> ts, count |-> count, previousIPs |-> previousIPs,
     shouldBlock |-> shouldBlock]

(***************************************************************************)
(* checkBruteForce                                                         *)
(***************************************************************************)
recentFailed(logs, log) ==
    SelectSeq(logs, LAMBDA l : /\ l.ip = log.ip
                               /\ ~l.success
                               /\ log.timestamp - l.timestamp < BRUTE_FORCE_WINDOW)

\* mutant: the alert needs more than the threshold
checkBruteForceStrict(logs, log, t) ==
    LET n == Len(recentFailed(logs, log))
    IN  IF ~log.success /\ n > FAILED_LOGIN_THRESHOLD
        THEN <<Alert("bruteForce", "high", log.ip, log.userId, t, n, {},
                     n >= FAILED_LOGIN_THRESHOLD * 2)>>
        ELSE <<>>

checkBruteForce(logs, log, t) ==
    LET n == Len(recentFailed(logs, log))
    IN  IF ~log.success /\ n >= FAILED_LOGIN_THRESHOLD
        THEN <<Alert("bruteForce", "high", log.ip, log.userId, t, n, {},
                     n >= FAILED_LOGIN_THRESHOLD * 2)>>
        ELSE <<>>

\* mutant: auto-block at the alert threshold already
bruteForceBlocksEarly(logs, log) ==
    IF ~log.success /\ Len(recentFailed(logs, log)) >= FAILED_LOGIN_THRESHOLD
    THEN {log.ip} ELSE {}

\* the IPs checkBruteForce hands to blockIP
bruteForceBlocks(logs, log) ==
    IF ~log.success /\ Len(recentFailed(logs, log)) >= FAILED_LOGIN_THRESHOLD * 2
    THEN {log.ip} ELSE {}

(***************************************************************************)
(* checkRateLimit                                                          *)
(***************************************************************************)
recentRequests(logs, log) ==
    SelectSeq(logs, LAMBDA l : /\ l.ip = log.ip
                               /\ log.timestamp - l.timestamp < RATE_LIMIT_WINDOW)

\* mutant: the alert needs more than the maximum
checkRateLimitStrict(logs, log, t) ==
    LET n == Len(recentRequests(logs, log))
    IN  IF n > RATE_LIMIT_MAX
        THEN <<Alert("rateLimitExceeded", "medium", log.ip, NoUser, t, n, {}, FALSE)>>
        ELSE <<>>

checkRateLimit(logs, log, t) ==
    LET n == Len(recentRequests(logs, log))
    IN  IF n >= RATE_LIMIT_MAX
        THEN <<Alert("rateLimitExceeded", "medium", log.ip, NoUser, t, n, {}, FALSE)>>
        ELSE <<>>

(***************************************************************************)
(* checkGeoAnomaly: no resolver, no alert.                                 *)
(***************************************************************************)
checkGeoAnomaly(log) == <<>>

(***************************************************************************)
(* checkNewIPForUser, on the userIPHistory that updateStatistics left.     *)
(***************************************************************************)
checkNewIPForUser(hist, log, t) ==
    IF /\ log.userId # NoUser
       /\ log.success
       /\ log.userId \in DOMAIN hist
       /\ hist[log.userId] # {}
       /\ log.ip \notin hist[log.userId]
    THEN <<Alert("newIPForUser", "low", log.ip, log.userId, t, 0,
                 hist[log.userId], FALSE)>>
    ELSE <<>>

(***************************************************************************)
(* trackAccess: the alerts it returns.  stats1/hist1/logs1 are the state   *)
(* after updateStatistics and the push.                                    *)
(***************************************************************************)
\* mutant: no early return for a blocked IP
trackAlertsNoReturn(logs1, hist1, blocked, white, log, t) ==
    (IF log.ip \in blocked
     THEN <<Alert("suspiciousIP", "critical", log.ip, NoUser, t, 0, {}, TRUE)>>
     ELSE <<>>)
    \o (IF log.ip \in white
        THEN <<>>
        ELSE checkBruteForce(logs1, log, t) \o checkRateLimit(logs1, log, t)
             \o checkGeoAnomaly(log) \o checkNewIPForUser(hist1, log, t))

trackAlerts(logs1, hist1, blocked, white, log, t) ==
    IF log.ip \in blocked
    THEN <<Alert("suspiciousIP", "critical", log.ip, NoUser, t, 0, {}, TRUE)>>
    ELSE IF log.ip \in white
    THEN <<>>
    ELSE checkBruteForce(logs1, log, t) \o checkRateLimit(logs1, log, t)
         \o checkGeoAnomaly(log) \o checkNewIPForUser(hist1, log, t)

trackBlocks(logs1, blocked, white, log) ==
    IF log.ip \in blocked \/ log.ip \in white THEN {}
    ELSE bruteForceBlocks(logs1, log)

(***************************************************************************)
(* The environment: events a caller may feed.  A caller stamps an event    *)
(* with its clock; a free event may also arrive 5 minutes ahead of it, so  *)
(* that events reach trackAccess out of timestamp order as well.  A        *)
(* scenario's events come first, the free events after them; the admin     *)
(* calls, the sweep and the clock interleave with both.                    *)
(***************************************************************************)
FreeEvents ==
    {AccessLog(ip, ts, "/login", u, NoUser, ok) :
        ip \in {IP1, IP2}, ts \in {now, now + BRUTE_FORCE_WINDOW},
        u \in {NoUser, "u1"}, ok \in BOOLEAN}

\* a scenario's event, its offset taken from the caller's clock
Stamp(log) == [log EXCEPT !.timestamp = now + @]

Inputs == IF script # <<>> THEN {Stamp(Head(script))}
          ELSE IF budget > 0 THEN FreeEvents ELSE {}

Scripted(log) == script # <<>>

Call(op, ip, log, alerts) == [op |-> op, ip |-> ip, log |-> log, alerts |-> alerts]

\* a free environment step is charged to the budget
Spend == budget > 0 /\ budget' = budget - 1 /\ UNCHANGED <<script, fed>>

(***************************************************************************)
(* trackAccess                                                             *)
(***************************************************************************)
TrackAccess ==
    \E log \in Inputs :
        LET stats1 == updateStatisticsStats(ipStats, log)
            hist1 == updateStatisticsHistory(userIPHistory, log)
            logs1 == pushLog(accessLogs, log)
        IN  /\ ipStats' = stats1
            /\ userIPHistory' = hist1
            /\ accessLogs' = logs1
            /\ blockedIPs' = blockedIPs
                             \cup trackBlocks(logs1, blockedIPs, whitelistedIPs, log)
            /\ ret' = Call("trackAccess", log.ip, log,
                           trackAlerts(logs1, hist1, blockedIPs, whitelistedIPs, log, now))
            /\ fed' = Append(fed, log)
            /\ IF Scripted(log)
               THEN script' = Tail(script) /\ UNCHANGED budget
               ELSE budget' = budget - 1 /\ UNCHANGED script
            /\ UNCHANGED <<whitelistedIPs, now, loggerVars, ctxVars, sanVars, ruleVars>>

(***************************************************************************)
(* blockIP / unblockIP / whitelistIP / removeFromWhitelist                 *)
(***************************************************************************)
blockIP(blocked, ip) == blocked \cup {ip}

BlockIP ==
    \E ip \in {IP1, IP2} :
        /\ Spend
        /\ blockedIPs' = blockIP(blockedIPs, ip)
        /\ ret' = Call("blockIP", ip, NoLog, <<>>)
        /\ UNCHANGED <<ipStats, accessLogs, whitelistedIPs, userIPHistory, now, loggerVars, ctxVars, sanVars, ruleVars>>

UnblockIP ==
    \E ip \in {IP1, IP2} :
        /\ Spend
        /\ blockedIPs' = blockedIPs \ {ip}
        /\ ret' = Call("unblockIP", ip, NoLog, <<>>)
        /\ UNCHANGED <<ipStats, accessLogs, whitelistedIPs, userIPHistory, now, loggerVars, ctxVars, sanVars, ruleVars>>

WhitelistIP ==
    \E ip \in {IP1, IP2} :
        /\ Spend
        /\ whitelistedIPs' = whitelistedIPs \cup {ip}
        /\ blockedIPs' = blockedIPs \ {ip}
        /\ ret' = Call("whitelistIP", ip, NoLog, <<>>)
        /\ UNCHANGED <<ipStats, accessLogs, userIPHistory, now, loggerVars, ctxVars, sanVars, ruleVars>>

RemoveFromWhitelist ==
    \E ip \in {IP1, IP2} :
        /\ Spend
        /\ whitelistedIPs' = whitelistedIPs \ {ip}
        /\ ret' = Call("removeFromWhitelist", ip, NoLog, <<>>)
        /\ UNCHANGED <<ipStats, accessLogs, blockedIPs, userIPHistory, now, loggerVars, ctxVars, sanVars, ruleVars>>

(***************************************************************************)
(* autoCleanup (the timer's callback and triggerCleanup)                   *)
(***************************************************************************)
\* Array.prototype.sort by lastSeen is stable: insertion into a sorted prefix
RECURSIVE sortByLastSeen(_)
sortByLastSeen(stats) ==
    IF stats = <<>> THEN <<>>
    ELSE LET n == Len(stats)
             front == sortByLastSeen(SubSeq(stats, 1, n - 1))
             x == stats[n]
             le == SelectSeq(front, LAMBDA s : s.lastSeen <= x.lastSeen)
             gt == SelectSeq(front, LAMBDA s : s.lastSeen > x.lastSeen)
         IN  le \o <<x>> \o gt

\* a variant that evicts the most recently seen entries
cleanupStatsNewest(stats, t) ==
    LET ttl == t - IP_TTL
        live == SelectSeq(stats, LAMBDA s : ~(s.lastSeen < ttl))
        sorted == sortByLastSeen(live)
        toRemove == IF Len(live) > MAX_IPS
                    THEN {sorted[i].ip : i \in (MAX_IPS + 1)..Len(sorted)}
                    ELSE {}
    IN  SelectSeq(live, LAMBDA s : s.ip \notin toRemove)

cleanupStats(stats, t) ==
    LET ttl == t - IP_TTL
        live == SelectSeq(stats, LAMBDA s : ~(s.lastSeen < ttl))
        sorted == sortByLastSeen(live)
        toRemove == IF Len(live) > MAX_IPS
                    THEN {sorted[i].ip : i \in 1..(Len(sorted) - MAX_IPS)}
                    ELSE {}
    IN  SelectSeq(live, LAMBDA s : s.ip \notin toRemove)

\* a variant that leaves the histories alone
cleanupHistoryKeeps(hist, stats, t) == hist

cleanupHistory(hist, stats, t) ==
    LET ttl == t - IP_TTL
        stale == {stats[i].ip : i \in {j \in 1..Len(stats) : stats[j].lastSeen < ttl}}
    IN  [u \in DOMAIN hist |-> hist[u] \ stale]

\* a variant that also drops the oldest event it would keep
cleanupLogsShift(logs, t) ==
    LET kept == SelectSeq(logs, LAMBDA l : l.timestamp > t - IP_TTL)
    IN  IF kept = <<>> THEN kept ELSE Tail(kept)

cleanupLogs(logs, t) ==
    SelectSeq(logs, LAMBDA l : l.timestamp > t - IP_TTL)

\* mutant: the sweep also drops the list entries of the IPs it evicts
AutoCleanupDropsLists ==
    /\ ipStats' = cleanupStats(ipStats, now)
    /\ userIPHistory' = cleanupHistory(userIPHistory, ipStats, now)
    /\ accessLogs' = cleanupLogs(accessLogs, now)
    /\ blockedIPs' = blockedIPs \cap StatsIPs(ipStats')
    /\ whitelistedIPs' = whitelistedIPs \cap StatsIPs(ipStats')
    /\ ret' = Call("autoCleanup", "", NoLog, <<>>)
    /\ UNCHANGED <<now, fed, script, budget, loggerVars, ctxVars, sanVars, ruleVars>>

AutoCleanup ==
    /\ ipStats' = cleanupStats(ipStats, now)
    /\ userIPHistory' = cleanupHistory(userIPHistory, ipStats, now)
    /\ accessLogs' = cleanupLogs(accessLogs, now)
    /\ ret' = Call("autoCleanup", "", NoLog, <<>>)
    /\ UNCHANGED <<blockedIPs, whitelistedIPs, now, fed, script, budget, loggerVars, ctxVars, sanVars, ruleVars>>

(***************************************************************************)
(* The wall clock advances.                                                *)
(***************************************************************************)
\* a day and a second: what was seen in the first second is then past the TTL
TickStep == IP_TTL + 1000

Tick ==
    /\ now < MaxTicks * TickStep
    /\ now' = now + TickStep
    /\ ret' = Call("tick", "", NoLog, <<>>)
    /\ UNCHANGED <<trackerVars, fed, script, budget, loggerVars, ctxVars, sanVars, ruleVars>>

(***************************************************************************)
(* Scenarios                                                               *)
(***************************************************************************)
\* n failed logins from ip, dt apart, the first at dt
Burst(ip, n, dt) ==
    [k \in 1..n |-> AccessLog(ip, k * dt, "/login", NoUser, NoUser, FALSE)]

\* n successful requests from ip, dt apart
Requests(ip, n, dt) ==
    [k \in 1..n |-> AccessLog(ip, k * dt, "/api", NoUser, NoUser, TRUE)]

Scripts ==
    { Burst(IP1, 2 * FAILED_LOGIN_THRESHOLD + 1, 1000),
      Burst(IP1, 2 * FAILED_LOGIN_THRESHOLD + 1, 60000),
      Burst(IP1, FAILED_LOGIN_THRESHOLD + 1, 75000),
      Requests(IP1, RATE_LIMIT_MAX + 1, 5000),
      Burst(IP1, FAILED_LOGIN_THRESHOLD - 1, 1000)
          \o Requests(IP1, RATE_LIMIT_MAX - FAILED_LOGIN_THRESHOLD, 1000)
          \o Requests(IP2, MAX_LOGS - RATE_LIMIT_MAX + 1, 1000)
          \o <<AccessLog(IP1, 20000, "/login", NoUser, NoUser, FALSE)>>,
      << AccessLog(IP1, 1000, "/a", "u1", "ua1", TRUE),
         AccessLog(IP1, 2000, "/b", "u2", "ua2", TRUE),
         AccessLog(IP1, 3000, "/c", "u3", "ua3", TRUE),
         AccessLog(IP2, 4000, "/a", "u1", "ua1", TRUE),
         AccessLog(IP3, 5000, "/a", "u1", "ua1", TRUE) >> }

(***************************************************************************)
(* A tracker that has been running: the state trackAccess leaves after n   *)
(* events of IP1, one second apart, nf of them failed and spread evenly,   *)
(* with nua user agents, nuid users and nep endpoints in rotation.         *)
(***************************************************************************)
Traffic(n, nf, nua, nuid, nep) ==
    [k \in 1..n |->
        AccessLog(IP1, k * 1000,
                  "/e" \o ToString(k % nep),
                  IF nuid = 0 THEN NoUser ELSE "v" \o ToString(k % nuid),
                  IF nua = 0 THEN NoUser ELSE "ua" \o ToString(k % nua),
                  (k * nf) \div n = ((k - 1) * nf) \div n)]

Tracker(stats, logs, blocked, hist) ==
    [ipStats |-> stats, accessLogs |-> logs, blockedIPs |-> blocked,
     userIPHistory |-> hist]

\* the state trackAccess leaves, no IP whitelisted
track(before, log) ==
    LET logs1 == pushLog(before.accessLogs, log)
    IN  Tracker(updateStatisticsStats(before.ipStats, log),
                logs1,
                before.blockedIPs \cup trackBlocks(logs1, before.blockedIPs, {}, log),
                updateStatisticsHistory(before.userIPHistory, log))

\* trackAccess on events[lo], ..., events[hi] in turn (the state after the first
\* half is computed before the second half starts)
RECURSIVE replayFrom(_, _, _, _)
replayFrom(before, events, lo, hi) ==
    IF lo > hi THEN before
    ELSE IF lo = hi THEN track(before, events[lo])
    ELSE LET mid == (lo + hi) \div 2
             half == replayFrom(before, events, lo, mid)
         IN  IF half = half THEN replayFrom(half, events, mid + 1, hi) ELSE before

replay(events, n) == replayFrom(Tracker(<<>>, <<>>, {}, <<>>), events, 1, n)

\* the traffic so far and the events that follow it
History(past, next) == [past |-> past, next |-> next]

Histories ==
    { History(Traffic(999, 510, 10, 5, 50),
              << AccessLog(IP1, 1000, "/login", "u1", "curl", FALSE),
                 AccessLog(IP1, 2000, "/login", "u1", "curl", FALSE) >>),
      History(Traffic(999, 310, 11, 6, 51),
              << AccessLog(IP1, 1000, "/e1", "v1", "ua1", TRUE),
                 AccessLog(IP1, 2000, "/e1", "v1", "ua1", TRUE) >>),
      History(Traffic(10, 3, 0, 0, 1),
              << AccessLog(IP1, 1000, "/e0", NoUser, NoUser, FALSE),
                 AccessLog(IP1, 2000, "/e0", NoUser, NoUser, FALSE) >>),
      History(Traffic(100, 50, 12, 2, 20),
              << AccessLog(IP1, 1000, "/e0", NoUser, NoUser, FALSE),
                 AccessLog(IP2, 2000, "/e0", NoUser, NoUser, TRUE) >>) }

(***************************************************************************)
(* Strings.  A string is read character by character, as the regular       *)
(* expressions of the masking rules read it.                               *)
(***************************************************************************)
charAt(s, i) == IF 1 <= i /\ i <= Len(s) THEN SubSeq(s, i, i) ELSE ""

\* the characters i..j of s that exist
slice(s, i, j) ==
    IF i > Len(s) \/ j < i THEN "" ELSE SubSeq(s, i, IF j > Len(s) THEN Len(s) ELSE j)

UpperLetters == "ABCDEFGHIJKLMNOPQRSTUVWXYZ"
LowerLetters == "abcdefghijklmnopqrstuvwxyz"
DigitChars == "0123456789"
CharsOf(s) == {charAt(s, k) : k \in 1..Len(s)}

\* the character classes of the patterns
Upper == CharsOf(UpperLetters)
Lower == CharsOf(LowerLetters)
Digit == CharsOf(DigitChars)
    \* \d
Alnum == Upper \cup Lower \cup Digit
    \* a-zA-Z0-9
WordChar == Alnum \cup {"_"}
    \* \w, what \b tells apart
Space == {" ", "\t", "\n", "\r", "\f"}
    \* \s
PhoneChar == Digit \cup Space \cup {"(", ")", "-"}
    \* [\d\s()-]
EmailChar == Alnum \cup {".", "_", "-"}
    \* [a-zA-Z0-9._-]
KeyChar == Alnum \cup {"_", "-"}
    \* [a-zA-Z0-9_-]

lowerChar(c) ==
    IF c \in Upper
    THEN charAt(LowerLetters, CHOOSE k \in 1..Len(UpperLetters) : charAt(UpperLetters, k) = c)
    ELSE c

RECURSIVE toLowerCase(_)
toLowerCase(s) == IF s = "" THEN "" ELSE lowerChar(Head(s)) \o toLowerCase(Tail(s))

upperChar(c) ==
    IF c \in Lower
    THEN charAt(UpperLetters, CHOOSE k \in 1..Len(LowerLetters) : charAt(LowerLetters, k) = c)
    ELSE c

RECURSIVE toUpperCase(_)
toUpperCase(s) == IF s = "" THEN "" ELSE upperChar(Head(s)) \o toUpperCase(Tail(s))

\* String.prototype.includes
includes(s, part) ==
    \E i \in 1..(Len(s) - Len(part) + 1) : slice(s, i, i + Len(part) - 1) = part

\* the last index of the longest run of characters of class C that starts at i
\* (i - 1 when there is none)
RECURSIVE runEnd(_, _, _)
runEnd(s, i, C) == IF charAt(s, i) \in C THEN runEnd(s, i + 1, C) ELSE i - 1

\* \b between the characters i - 1 and i
boundaryAt(s, i) == (charAt(s, i - 1) \in WordChar) # (charAt(s, i) \in WordChar)

\* \d{n} at i
digitsAt(s, i, n) == \A k \in i..(i + n - 1) : charAt(s, k) \in Digit

(***************************************************************************)
(* MaskingRule and DEFAULT_MASKING_RULES.  A rule's pattern is a RegExp    *)
(* (regexp = TRUE; pattern names the expression, matched by matchEnd       *)
(* below) or a string (regexp = FALSE; pattern is the string).             *)
(***************************************************************************)
MaskingRule(name, regexp, pattern, replacement, enabled) ==
    [name |-> name, regexp |-> regexp, pattern |-> pattern,
     replacement |-> replacement, enabled |-> enabled]

DEFAULT_MASKING_RULES ==
    << MaskingRule("email", TRUE, "email", "***@***.***", TRUE),
       MaskingRule("phone", TRUE, "phone", "***-***-****", TRUE),
       MaskingRule("creditCard", TRUE, "creditCard", "****-****-****-****", TRUE),
       MaskingRule("ssn", TRUE, "ssn", "***-**-****", TRUE),
       MaskingRule("password", FALSE, "password", "********", TRUE),
       MaskingRule("apiKey", TRUE, "apiKey", "********************************", TRUE),
       MaskingRule("jwt", TRUE, "jwt", "eyJ***.eyJ***.***", TRUE),
       MaskingRule("ipAddress", TRUE, "ipAddress", "***.***.***.***", FALSE),
       MaskingRule("nationalId", TRUE, "nationalId", "***********", TRUE),
       MaskingRule("bankAccount", TRUE, "bankAccount", "**********", TRUE) >>

\* /([a-zA-Z0-9._-]+@[a-zA-Z0-9._-]+\.[a-zA-Z0-9_-]+)/gi at i: the index of
\* the match's last character, 0 when there is no match.  The local part is
\* the whole run up to the @; the domain run gives back characters down to
\* its last dot that a [a-zA-Z0-9_-] follows.
matchEmail(s, i) ==
    LET at == runEnd(s, i, EmailChar) + 1
        m == runEnd(s, at + 1, EmailChar)
        dots == {p \in (at + 2)..m : charAt(s, p) = "." /\ charAt(s, p + 1) \in KeyChar}
    IN  IF at > i /\ charAt(s, at) = "@" /\ dots # {}
        THEN runEnd(s, (CHOOSE p \in dots : \A q \in dots : q <= p) + 1, KeyChar)
        ELSE 0

\* /(\+?[\d\s()-]{10,})/g
matchPhone(s, i) ==
    LET j == IF charAt(s, i) = "+" THEN i + 1 ELSE i
        e == runEnd(s, j, PhoneChar)
    IN  IF e - j + 1 >= 10 THEN e ELSE 0

\* \d{4}[\s-]? ... \d{4}: n groups of four digits from j on
RECURSIVE cardGroups(_, _, _)
cardGroups(s, j, n) ==
    IF ~digitsAt(s, j, 4) THEN 0
    ELSE IF n = 1 THEN j + 3
    ELSE cardGroups(s, IF charAt(s, j + 4) \in Space \cup {"-"} THEN j + 5 ELSE j + 4, n - 1)

\* /\b\d{4}[\s-]?\d{4}[\s-]?\d{4}[\s-]?\d{4}\b/g
matchCreditCard(s, i) ==
    LET e == cardGroups(s, i, 4)
    IN  IF boundaryAt(s, i) /\ e > 0 /\ boundaryAt(s, e + 1) THEN e ELSE 0

\* /\b\d{3}-\d{2}-\d{4}\b/g
matchSsn(s, i) ==
    IF /\ boundaryAt(s, i)
       /\ digitsAt(s, i, 3) /\ charAt(s, i + 3) = "-"
       /\ digitsAt(s, i + 4, 2) /\ charAt(s, i + 6) = "-"
       /\ digitsAt(s, i + 7, 4)
       /\ boundaryAt(s, i + 11)
    THEN i + 10 ELSE 0

\* /[a-zA-Z0-9_-]{32,}/g
matchApiKey(s, i) ==
    LET e == runEnd(s, i, KeyChar) IN IF e - i + 1 >= 32 THEN e ELSE 0

\* /eyJ[a-zA-Z0-9_-]*\.eyJ[a-zA-Z0-9_-]*\.[a-zA-Z0-9_-]*/g
matchJwt(s, i) ==
    LET a == runEnd(s, i + 3, KeyChar)
        b == runEnd(s, a + 5, KeyChar)
    IN  IF /\ slice(s, i, i + 2) = "eyJ" /\ charAt(s, a + 1) = "."
           /\ slice(s, a + 2, a + 4) = "eyJ" /\ charAt(s, b + 1) = "."
        THEN runEnd(s, b + 2, KeyChar) ELSE 0

\* (?:\d{1,3}\.){n} from j on: the index after the last dot, 0 when it fails
RECURSIVE octets(_, _, _)
octets(s, j, n) ==
    LET d == runEnd(s, j, Digit)
    IN  IF n = 0 THEN j
        ELSE IF d >= j /\ d - j + 1 <= 3 /\ charAt(s, d + 1) = "."
             THEN octets(s, d + 2, n - 1) ELSE 0

\* /\b(?:\d{1,3}\.){3}\d{1,3}\b/g
matchIpAddress(s, i) ==
    LET j == octets(s, i, 3)
        e == runEnd(s, j, Digit)
    IN  IF boundaryAt(s, i) /\ j > 0 /\ e >= j /\ e - j + 1 <= 3 /\ boundaryAt(s, e + 1)
        THEN e ELSE 0

\* /\b\d{lo,hi}\b/g
matchDigits(s, i, lo, hi) ==
    LET e == runEnd(s, i, Digit)
    IN  IF boundaryAt(s, i) /\ lo <= e - i + 1 /\ e - i + 1 <= hi /\ boundaryAt(s, e + 1)
        THEN e ELSE 0

\* new RegExp(pattern, 'gi') of a string pattern without metacharacters
matchLiteral(s, i, pattern) ==
    IF pattern # "" /\ toLowerCase(slice(s, i, i + Len(pattern) - 1)) = toLowerCase(pattern)
    THEN i + Len(pattern) - 1 ELSE 0

matchEnd(rule, s, i) ==
    IF ~rule.regexp THEN matchLiteral(s, i, rule.pattern)
    ELSE CASE rule.pattern = "email" -> matchEmail(s, i)
           [] rule.pattern = "phone" -> matchPhone(s, i)
           [] rule.pattern = "creditCard" -> matchCreditCard(s, i)
           [] rule.pattern = "ssn" -> matchSsn(s, i)
           [] rule.pattern = "apiKey" -> matchApiKey(s, i)
           [] rule.pattern = "jwt" -> matchJwt(s, i)
           [] rule.pattern = "ipAddress" -> matchIpAddress(s, i)
           [] rule.pattern = "nationalId" -> matchDigits(s, i, 9, 12)
           [] rule.pattern = "bankAccount" -> matchDigits(s, i, 10, 20)
           [] OTHER -> 0

\* String.prototype.replace with a global pattern, from index i on
RECURSIVE replaceFrom(_, _, _)
replaceFrom(rule, s, i) ==
    IF i > Len(s) THEN ""
    ELSE LET e == matchEnd(rule, s, i)
         IN  IF e >= i
             THEN rule.replacement \o replaceFrom(rule, s, e + 1)
             ELSE charAt(s, i) \o replaceFrom(rule, s, i + 1)

RECURSIVE applyRules(_, _)
applyRules(rules, s) ==
    IF rules = <<>> THEN s
    ELSE applyRules(Tail(rules), replaceFrom(Head(rules), s, 1))

sanitizeString(pol, value) ==
    applyRules(SelectSeq(pol.rules \o pol.customRules, LAMBDA rule : rule.enabled), value)

(***************************************************************************)
(* JavaScript values.  Every value has the same four fields, so that any   *)
(* two of them compare: t is its type, s a string's text (an object's      *)
(* constructor name), n a number (a boolean as 0 / 1, a reference's        *)
(* identity), k the entries of an object, array, Map or Set in their       *)
(* order; an entry's key is itself a value (a property's name as a         *)
(* string, undefined for the elements of an array or a Set).               *)
(* An object written in place is met once only, where it stands; an        *)
(* object that is reachable along several paths, or from itself, lives in  *)
(* Heap and is named by Ref(identity).                                     *)
(***************************************************************************)
Value(t, s, n, k) == [t |-> t, s |-> s, n |-> n, k |-> k]
Undefined == Value("undefined", "", 0, <<>>)
Null == Value("null", "", 0, <<>>)
Str(s) == Value("string", s, 0, <<>>)
Num(n) == Value("number", "", n, <<>>)
Bool(b) == Value("boolean", "", IF b THEN 1 ELSE 0, <<>>)
Func == Value("function", "Function", 0, <<>>)
DateOf(n) == Value("date", "Date", n, <<>>)
Binary == Value("binary", "Buffer", 0, <<>>)
Ref(id) == Value("ref", "", id, <<>>)

Entry(key, val) == [key |-> key, val |-> val]
Prop(name, val) == Entry(Str(name), val)
Elems(vals) == [i \in DOMAIN vals |-> Entry(Undefined, vals[i])]

Obj(props) == Value("object", "Object", 0, props)
Instance(class, props) == Value("object", class, 0, props)
Arr(vals) == Value("array", "Array", 0, Elems(vals))
MapOf(entries) == Value("map", "Map", 0, entries)
SetOf(vals) == Value("set", "Set", 0, Elems(vals))
\* WeakMap, WeakSet, Promise
Opaque(class) == Value("opaque", class, 0, <<>>)
\* an Error: its name, its message and its stack (a string or undefined)
ErrorOf(name, message, stack) ==
    Value("error", name, 0, <<Prop("message", Str(message)), Prop("stack", stack)>>)

primitive(v) == v.t \in {"undefined", "null", "string", "number", "boolean"}

\* the index of key among entries, 0 when absent
keyIndex(entries, key) ==
    IF \E i \in DOMAIN entries : entries[i].key = key
    THEN CHOOSE i \in DOMAIN entries : entries[i].key = key
    ELSE 0

\* { ...a, ...b } of two property lists: a's keys keep their place
Assign(a, b) ==
    [i \in DOMAIN a |-> IF keyIndex(b, a[i].key) # 0
                         THEN b[keyIndex(b, a[i].key)] ELSE a[i]]
        \o SelectSeq(b, LAMBDA e : keyIndex(a, e.key) = 0)

\* what ...v spreads: the properties of an object, nothing of undefined
spread(v) == IF v.t = "object" THEN v.k ELSE <<>>

\* v.name, undefined when absent
get(v, name) ==
    IF keyIndex(v.k, Str(name)) # 0 THEN v.k[keyIndex(v.k, Str(name))].val ELSE Undefined

\* the truthiness JavaScript tests with ${x ? .. : ..}
truthy(v) ==
    CASE v.t \in {"undefined", "null"} -> FALSE
      [] v.t = "string" -> v.s # ""
      [] v.t \in {"number", "boolean"} -> v.n # 0
      [] OTHER -> TRUE

\* Map.prototype.set / Set.prototype.add compare keys by SameValueZero:
\* primitives by value, objects by identity
sameValueZero(a, b) == (primitive(a) \/ a.t = "ref") /\ a = b

\* new Map() filled by set(key, val) in the order of entries
RECURSIVE mapSetAll(_, _)
mapSetAll(done, entries) ==
    IF entries = <<>> THEN done
    ELSE LET e == Head(entries)
             at == {i \in DOMAIN done : sameValueZero(done[i].key, e.key)}
         IN  mapSetAll(IF at = {} THEN Append(done, e)
                       ELSE [i \in DOMAIN done |-> IF i \in at THEN e ELSE done[i]],
                       Tail(entries))

\* new Set() filled by add(val) in the order of entries
RECURSIVE setAddAll(_, _)
setAddAll(done, entries) ==
    IF entries = <<>> THEN done
    ELSE LET e == Head(entries)
         IN  setAddAll(IF \E i \in DOMAIN done : sameValueZero(done[i].val, e.val)
                       THEN done ELSE Append(done, e),
                       Tail(entries))

(***************************************************************************)
(* The objects with an identity that the callers of the model hold.        *)
(***************************************************************************)
Heap ==
    << Obj(<<Prop("name", Str("x")), Prop("email", Str("u@e.co")), Prop("self", Ref(1))>>),
       Arr(<<Str("a"), Ref(2)>>),
       MapOf(<<Entry(Str("me"), Ref(3))>>),
       SetOf(<<Num(7), Ref(4)>>),
       Obj(<<Prop("city", Str("Hanoi"))>>),
       Obj(<<Prop("next", Ref(7))>>),
       Instance("Node", <<Prop("prev", Ref(6)), Prop("pin", Ref(6))>>) >>

deref(v) == IF v.t = "ref" THEN Heap[v.n] ELSE v

(***************************************************************************)
(* SENSITIVE_FIELD_NAMES and createMaskingPolicy                           *)
(***************************************************************************)
SENSITIVE_FIELD_NAMES ==
    { "password", "passwd", "pwd", "secret", "token", "apiKey", "api_key",
      "accessToken", "access_token", "refreshToken", "refresh_token",
      "privateKey", "private_key", "creditCard", "credit_card", "cardNumber",
      "card_number", "cvv", "cvc", "ssn", "socialSecurity", "social_security",
      "nationalId", "national_id", "passport", "drivingLicense",
      "driving_license", "bankAccount", "bank_account", "accountNumber",
      "account_number", "routingNumber", "routing_number", "pin", "otp",
      "verificationCode", "verification_code" }

createMaskingPolicy(env) ==
    [mode |-> IF env = "production" THEN "production" ELSE "development",
     enabled |-> env = "production",
     strictMode |-> FALSE,
     rules |-> DEFAULT_MASKING_RULES,
     customRules |-> <<>>]

(***************************************************************************)
(* DataSanitizer.  visited is the set of the identities marked so far: it  *)
(* is handed from each child to the next and never shrinks.  sanitizeDFS   *)
(* and its helpers answer with the sanitized value and the visited set     *)
(* they leave.                                                             *)
(***************************************************************************)
DEFAULT_MAX_DEPTH == 50

\* sensitive.toLowerCase() of every name of the list
sensitiveLower == {toLowerCase(sensitive) : sensitive \in SENSITIVE_FIELD_NAMES}

isSensitiveField(fieldName) ==
    LET lowerFieldName == toLowerCase(fieldName)
    IN  \E sensitive \in sensitiveLower : includes(lowerFieldName, sensitive)

\* a variant with one mask for every type
maskValueFlat(value) == "***"

maskValue(value) ==
    CASE value.t \in {"undefined", "null"} -> "***"
      [] value.t = "string" ->
            IF Len(value.s) <= 3 THEN "***"
            ELSE charAt(value.s, 1) \o "***" \o charAt(value.s, Len(value.s))
      [] value.t = "number" -> "***"
      [] value.t = "boolean" -> "***"
      [] OTHER -> "***[MASKED]***"

\* what a traversal answers: the value, the identities marked, and whether
\* sanitizeString ran (String.prototype.replace rewinds a global pattern)
Result(out, visited, replaced) == [out |-> out, visited |-> visited, replaced |-> replaced]

RECURSIVE sanitizeDFS(_, _, _, _, _)

RECURSIVE sanitizeEntries(_, _, _, _, _, _)

\* a variant that hands depth on as it is
sanitizeEntriesSameDepth(pol, maxD, kind, entries, visited, depth) ==
    IF entries = <<>> THEN Result(<<>>, visited, FALSE)
    ELSE LET e == Head(entries)
             rk == IF kind = "map"
                   THEN sanitizeDFS(pol, maxD, e.key, visited, depth)
                   ELSE Result(e.key, visited, FALSE)
             rv == IF kind = "object" /\ isSensitiveField(e.key.s)
                   THEN Result(Str(maskValue(e.val)), rk.visited, FALSE)
                   ELSE sanitizeDFS(pol, maxD, e.val, rk.visited, depth)
             rest == sanitizeEntries(pol, maxD, kind, Tail(entries), rv.visited, depth)
         IN  Result(<<Entry(rk.out, rv.out)>> \o rest.out, rest.visited,
                    rk.replaced \/ rv.replaced \/ rest.replaced)

\* the loop over the entries of an object, an array, a Map or a Set
sanitizeEntries(pol, maxD, kind, entries, visited, depth) ==
    IF entries = <<>> THEN Result(<<>>, visited, FALSE)
    ELSE LET e == Head(entries)
             rk == IF kind = "map"
                   THEN sanitizeDFS(pol, maxD, e.key, visited, depth + 1)
                   ELSE Result(e.key, visited, FALSE)
             rv == IF kind = "object" /\ isSensitiveField(e.key.s)
                   THEN Result(Str(maskValue(e.val)), rk.visited, FALSE)
                   ELSE sanitizeDFS(pol, maxD, e.val, rk.visited, depth + 1)
             rest == sanitizeEntries(pol, maxD, kind, Tail(entries), rv.visited, depth)
         IN  Result(<<Entry(rk.out, rv.out)>> \o rest.out, rest.visited,
                    rk.replaced \/ rv.replaced \/ rest.replaced)

sanitizeArray(pol, maxD, arr, visited, depth) ==
    LET r == sanitizeEntries(pol, maxD, "array", arr.k, visited, depth)
    IN  Result(Value("array", "Array", 0, r.out), r.visited, r.replaced)

sanitizeMap(pol, maxD, map, visited, depth) ==
    LET r == sanitizeEntries(pol, maxD, "map", map.k, visited, depth)
    IN  Result(MapOf(mapSetAll(<<>>, r.out)), r.visited, r.replaced)

sanitizeSet(pol, maxD, set, visited, depth) ==
    LET r == sanitizeEntries(pol, maxD, "set", set.k, visited, depth)
    IN  Result(Value("set", "Set", 0, setAddAll(<<>>, r.out)), r.visited, r.replaced)

sanitizeObject(pol, maxD, obj, visited, depth) ==
    LET r == sanitizeEntries(pol, maxD, "object", obj.k, visited, depth)
    IN  Result(IF obj.s # "Object"
               THEN Obj(Assign(r.out, <<Prop("__type", Str(obj.s))>>))
               ELSE Obj(r.out),
               r.visited, r.replaced)

\* the object an Error is turned into
sanitizeError(pol, err) ==
    Obj(<<Prop("name", Str(err.s)),
          Prop("message", Str(sanitizeString(pol, get(err, "message").s))),
          Prop("stack", IF truthy(get(err, "stack"))
                        THEN Str(sanitizeString(pol, get(err, "stack").s))
                        ELSE Undefined)>>)

\* a variant that hands a node met again back as it is
sanitizeDFSKeepsReference(pol, maxD, data, visited, depth) ==
    LET node == deref(data)
        marked == IF data.t = "ref" THEN visited \cup {data.n} ELSE visited
    IN  IF node.t \in {"null", "undefined"} THEN Result(data, visited, FALSE)
        ELSE IF depth > maxD THEN Result(Str("[MAX_DEPTH_EXCEEDED]"), visited, FALSE)
        ELSE IF node.t = "string" THEN Result(Str(sanitizeString(pol, node.s)), visited, TRUE)
        ELSE IF node.t \in {"number", "boolean"} THEN Result(data, visited, FALSE)
        ELSE IF data.t = "ref" /\ data.n \in visited THEN Result(data, visited, FALSE)
        ELSE IF node.t = "function" THEN Result(Str("[Function]"), visited, FALSE)
        ELSE IF node.t = "date" THEN Result(data, visited, FALSE)
        ELSE IF node.t = "error" THEN Result(sanitizeError(pol, node), visited, TRUE)
        ELSE IF node.t = "binary" THEN Result(Str("[Binary Data]"), visited, FALSE)
        ELSE IF node.t = "array" THEN sanitizeArray(pol, maxD, node, marked, depth)
        ELSE IF node.t = "map" THEN sanitizeMap(pol, maxD, node, marked, depth)
        ELSE IF node.t = "set" THEN sanitizeSet(pol, maxD, node, marked, depth)
        ELSE IF node.t = "opaque" THEN Result(Str("[" \o node.s \o "]"), marked, FALSE)
        ELSE sanitizeObject(pol, maxD, node, marked, depth)

sanitizeDFS(pol, maxD, data, visited, depth) ==
    LET node == deref(data)
        marked == IF data.t = "ref" THEN visited \cup {data.n} ELSE visited
    IN  IF node.t \in {"null", "undefined"} THEN Result(data, visited, FALSE)
        ELSE IF depth > maxD THEN Result(Str("[MAX_DEPTH_EXCEEDED]"), visited, FALSE)
        ELSE IF node.t = "string" THEN Result(Str(sanitizeString(pol, node.s)), visited, TRUE)
        ELSE IF node.t \in {"number", "boolean"} THEN Result(data, visited, FALSE)
        ELSE IF data.t = "ref" /\ data.n \in visited THEN Result(Str("[CIRCULAR]"), visited, FALSE)
        ELSE IF node.t = "function" THEN Result(Str("[Function]"), visited, FALSE)
        ELSE IF node.t = "date" THEN Result(data, visited, FALSE)
        ELSE IF node.t = "error" THEN Result(sanitizeError(pol, node), visited, TRUE)
        ELSE IF node.t = "binary" THEN Result(Str("[Binary Data]"), visited, FALSE)
        ELSE IF node.t = "array" THEN sanitizeArray(pol, maxD, node, marked, depth)
        ELSE IF node.t = "map" THEN sanitizeMap(pol, maxD, node, marked, depth)
        ELSE IF node.t = "set" THEN sanitizeSet(pol, maxD, node, marked, depth)
        ELSE IF node.t = "opaque" THEN Result(Str("[" \o node.s \o "]"), marked, FALSE)
        ELSE sanitizeObject(pol, maxD, node, marked, depth)

\* a variant that skips in development mode only
sanitizeUnlessDevelopment(pol, maxD, data) ==
    IF pol.mode = "development" THEN data
    ELSE sanitizeDFS(pol, maxD, data, {}, 0).out

sanitize(pol, maxD, data) ==
    IF ~pol.enabled \/ pol.mode = "development" THEN data
    ELSE sanitizeDFS(pol, maxD, data, {}, 0).out

(***************************************************************************)
(* The rules of a policy.  createMaskingPolicy puts the one array          *)
(* DEFAULT_MASKING_RULES in every policy it builds, and a new empty        *)
(* customRules array; a policy of the model keeps its own properties, and  *)
(* its rules are read from the shared array.                               *)
(***************************************************************************)
\* the policy as a sanitizer reads it, rules being the shared array
policyWith(rules, pol) == [pol EXCEPT !.rules = rules]

\* Array.prototype.find by name, then the assignment to enabled
toggleFirst(rules, ruleName, enabled) ==
    LET at == {i \in DOMAIN rules : rules[i].name = ruleName}
    IN  IF at = {} THEN rules
        ELSE [rules EXCEPT ![CHOOSE i \in at : \A j \in at : i <= j].enabled = enabled]

addCustomRule(pol, rule) == [pol EXCEPT !.customRules = Append(@, rule)]

removeCustomRule(pol, ruleName) ==
    [pol EXCEPT !.customRules = SelectSeq(@, LAMBDA rule : rule.name # ruleName)]

\* toggleRule: the rule of that name in policy.rules, then the one in
\* policy.customRules
toggleRule(pol, ruleName, enabled) ==
    [pol EXCEPT !.rules = toggleFirst(@, ruleName, enabled),
                !.customRules = toggleFirst(@, ruleName, enabled)]

(***************************************************************************)
(* The lastIndex of the global patterns.  The RegExp objects of            *)
(* DEFAULT_MASKING_RULES are shared by every policy built from them;       *)
(* li maps a pattern to its lastIndex.                                     *)
(***************************************************************************)
Patterns == {DEFAULT_MASKING_RULES[i].pattern :
                i \in {j \in DOMAIN DEFAULT_MASKING_RULES : DEFAULT_MASKING_RULES[j].regexp}}

NoLastIndex == [pattern \in Patterns |-> 0]

enabledRules(pol) == SelectSeq(pol.rules \o pol.customRules, LAMBDA rule : rule.enabled)

\* String.prototype.replace with a global pattern leaves its lastIndex at 0
replaceRewinds(pol, li) ==
    [pattern \in Patterns |->
        IF \E i \in DOMAIN enabledRules(pol) :
               enabledRules(pol)[i].regexp /\ enabledRules(pol)[i].pattern = pattern
        THEN 0 ELSE li[pattern]]

\* the lastIndex values a call of sanitize leaves
sanitizeLastIndex(pol, maxD, li, data) ==
    IF ~pol.enabled \/ pol.mode = "development" THEN li
    ELSE IF sanitizeDFS(pol, maxD, data, {}, 0).replaced THEN replaceRewinds(pol, li)
    ELSE li

\* the first index from i on where the pattern matches, 0 when nowhere
RECURSIVE searchFrom(_, _, _)
searchFrom(rule, s, i) ==
    IF i > Len(s) THEN 0
    ELSE IF matchEnd(rule, s, i) >= i THEN i
    ELSE searchFrom(rule, s, i + 1)

\* RegExp.prototype.test of a global pattern: the search starts at lastIndex
\* and leaves it behind the match, or at 0 when there is none
Tested(found, li) == [found |-> found, li |-> li]

test(rule, li, s) ==
    LET at == IF li[rule.pattern] > Len(s) THEN 0
              ELSE searchFrom(rule, s, li[rule.pattern] + 1)
    IN  IF at = 0 THEN Tested(FALSE, [li EXCEPT ![rule.pattern] = 0])
        ELSE Tested(TRUE, [li EXCEPT ![rule.pattern] = matchEnd(rule, s, at)])

RECURSIVE testRules(_, _, _)
testRules(rules, li, s) ==
    IF rules = <<>> THEN Tested(FALSE, li)
    ELSE IF ~Head(rules).regexp THEN testRules(Tail(rules), li, s)
    ELSE LET r == test(Head(rules), li, s)
         IN  IF r.found THEN r ELSE testRules(Tail(rules), r.li, s)

containsPIIInString(pol, li, value) == testRules(enabledRules(pol), li, value)

Found(found, visited, li) == [found |-> found, visited |-> visited, li |-> li]

RECURSIVE containsPIIDFS(_, _, _, _, _, _)

\* the loops over the entries, left at the first hit
RECURSIVE containsPIIEntries(_, _, _, _, _, _, _)
containsPIIEntries(pol, maxD, kind, entries, visited, li, depth) ==
    IF entries = <<>> THEN Found(FALSE, visited, li)
    ELSE LET e == Head(entries)
         IN  IF kind = "object" /\ isSensitiveField(e.key.s) THEN Found(TRUE, visited, li)
             ELSE LET rk == IF kind = "map"
                            THEN containsPIIDFS(pol, maxD, e.key, visited, li, depth + 1)
                            ELSE Found(FALSE, visited, li)
                  IN  IF rk.found THEN rk
                      ELSE LET rv == containsPIIDFS(pol, maxD, e.val, rk.visited, rk.li,
                                                    depth + 1)
                           IN  IF rv.found THEN rv
                               ELSE containsPIIEntries(pol, maxD, kind, Tail(entries),
                                                       rv.visited, rv.li, depth)

containsPIIDFS(pol, maxD, data, visited, li, depth) ==
    LET node == deref(data)
        marked == IF data.t = "ref" THEN visited \cup {data.n} ELSE visited
    IN  IF node.t \in {"null", "undefined"} THEN Found(FALSE, visited, li)
        ELSE IF node.t = "string"
             THEN LET r == containsPIIInString(pol, li, node.s)
                  IN  Found(r.found, visited, r.li)
        ELSE IF node.t \in {"number", "boolean", "function"} THEN Found(FALSE, visited, li)
        ELSE IF depth > maxD THEN Found(FALSE, visited, li)
        ELSE IF data.t = "ref" /\ data.n \in visited THEN Found(FALSE, visited, li)
        ELSE IF node.t \in {"array", "map", "set"}
             THEN containsPIIEntries(pol, maxD, node.t, node.k, marked, li, depth)
        ELSE IF node.t = "object"
             THEN containsPIIEntries(pol, maxD, "object", node.k, marked, li, depth)
        \* a Date, an Error, a Buffer, a WeakMap, a Promise:
        \* no own enumerable property with a sensitive name or a string value
        ELSE Found(FALSE, marked, li)

containsPII(pol, maxD, li, data) == containsPIIDFS(pol, maxD, data, {}, li, 0)

(***************************************************************************)
(* WinstonLoggerService.  Each method hands one call to the winston        *)
(* logger; the operator is the call it hands over.  The service has no     *)
(* context label of its own (ExtendedLoggerService constructs it without   *)
(* one) and the callers of the model pass none.                            *)
(***************************************************************************)
NoContext == ""

LogRecord(level, message, context, stack, metadata) ==
    [level |-> level, message |-> message, context |-> context,
     stack |-> stack, metadata |-> metadata]

\* getStore() || {} : store is the empty map when no context was entered
getTraceContext(st) == st

setTraceContext(st, metadata) == Assign(getTraceContext(st), metadata)

mergeMetadata(st, metadata) == Obj(Assign(getTraceContext(st), spread(metadata)))

\* WinstonLoggerService.log
logInfo(st, message, metadata) ==
    LogRecord("info", message, NoContext, "", mergeMetadata(st, metadata))

error(st, message, trace, metadata) ==
    LogRecord("error", message, NoContext, trace, mergeMetadata(st, metadata))

warn(st, message, metadata) ==
    LogRecord("warn", message, NoContext, "", mergeMetadata(st, metadata))

debug(st, message, metadata) ==
    LogRecord("debug", message, NoContext, "", mergeMetadata(st, metadata))

verbose(st, message, metadata) ==
    LogRecord("debug", message, NoContext, "", mergeMetadata(st, metadata))

http(st, message, metadata) ==
    LogRecord("http", message, NoContext, "", mergeMetadata(st, metadata))

logWithLevel(st, level, message, metadata) ==
    LogRecord(level, message, NoContext, "", mergeMetadata(st, metadata))

(***************************************************************************)
(* ExtendedLoggerService.  The arrows and emoji of the message prefixes    *)
(* are written in ASCII.                                                   *)
(***************************************************************************)
sanitizeData(pol, maxD, data) == sanitize(pol, maxD, data)

Direction(d) == <<Prop("direction", Str(d))>>

httpRequestMessage(l) == "-> " \o get(l, "method").s \o " " \o get(l, "url").s

httpRequestMetadata(l) == Obj(Assign(spread(l), Direction("incoming")))

httpRequest(st, pol, maxD, l) ==
    http(st, httpRequestMessage(l),
         Obj(Assign(spread(sanitizeData(pol, maxD, l)), Direction("incoming"))))

httpResponseMessage(l) ==
    "<- " \o get(l, "method").s \o " " \o get(l, "url").s \o " "
          \o ToString(get(l, "statusCode").n) \o " ("
          \o ToString(get(l, "duration").n) \o "ms)"

httpResponseLevel(l) ==
    IF get(l, "statusCode").n >= 500 THEN "error"
    ELSE IF get(l, "statusCode").n >= 400 THEN "warn" ELSE "http"

httpResponseMetadata(l) == Obj(Assign(spread(l), Direction("outgoing")))

httpResponse(st, pol, maxD, l) ==
    logWithLevel(st, httpResponseLevel(l), httpResponseMessage(l),
                 Obj(Assign(spread(sanitizeData(pol, maxD, l)), Direction("outgoing"))))

exceptionMessage(l) ==
    "[EXCEPTION] " \o get(l, "exceptionType").s \o ": " \o get(l, "message").s

exceptionMetadata(l, iso) == Obj(Assign(spread(l), <<Prop("timestamp", Str(iso))>>))

exception(st, l, iso) ==
    error(st, exceptionMessage(l), get(l, "stack").s, exceptionMetadata(l, iso))

authEmoji(event) ==
    CASE event = "login" -> "lock"
      [] event = "logout" -> "wave"
      [] event = "register" -> "memo"
      [] event = "passwordReset" -> "key"
      [] event = "tokenRefresh" -> "arrows"
      [] OTHER -> "glass"

authMessage(l) ==
    "[AUTH " \o authEmoji(get(l, "event").s) \o "] " \o toUpperCase(get(l, "event").s)
        \o (IF truthy(get(l, "email")) THEN " - " \o get(l, "email").s ELSE "")
        \o " - " \o (IF truthy(get(l, "success")) THEN "SUCCESS" ELSE "FAILED")
        \o (IF truthy(get(l, "mfa")) THEN " [MFA]" ELSE "")

auth(st, l) ==
    logWithLevel(st, IF truthy(get(l, "success")) THEN "info" ELSE "warn", authMessage(l), l)

paymentMessage(l) ==
    "[PAYMENT card] " \o toUpperCase(get(l, "operation").s) \o " "
        \o ToString(get(l, "amount").n) \o " " \o get(l, "currency").s
        \o " via " \o get(l, "paymentMethod").s
        \o " - " \o toUpperCase(get(l, "status").s)
        \o (IF truthy(get(l, "provider")) THEN " [" \o get(l, "provider").s \o "]" ELSE "")

paymentMetadata(l) ==
    Obj(Assign(spread(l), <<Prop("amount", get(l, "amount")),
                            Prop("currency", get(l, "currency"))>>))

payment(st, l) ==
    logWithLevel(st, IF get(l, "status").s = "failed" THEN "error" ELSE "info",
                 paymentMessage(l), paymentMetadata(l))

(***************************************************************************)
(* What the callers of the model pass                                      *)
(***************************************************************************)
Envs == {"development", "production"}

\* the policies handed to setMaskingPolicy / setPolicy: those of
\* createMaskingPolicy, and variations of them written as
\* { ...createMaskingPolicy(env), strictMode: true } and the like
Policies ==
    {createMaskingPolicy(env) : env \in Envs}
        \cup { [createMaskingPolicy("production") EXCEPT !.strictMode = TRUE],
               [createMaskingPolicy("production") EXCEPT !.enabled = FALSE],
               [createMaskingPolicy("development") EXCEPT !.enabled = TRUE] }

TraceContexts ==
    { <<Prop("trace_id", Str("t1")), Prop("request_id", Str("r1"))>>,
      <<Prop("user_id", Str("u@e.co"))>> }

Messages == {"hello"}

Metadatas ==
    { Undefined,
      Obj(<<Prop("user", Str("u1"))>>),
      Obj(<<Prop("email", Str("u@e.co")), Prop("password", Str("secret123"))>>),
      Obj(<<Prop("trace_id", Str("t2")),
            Prop("profile", Obj(<<Prop("phone", Str("0912345678"))>>))>>) }

HttpRequestLogs ==
    { Obj(<<Prop("method", Str("GET")), Prop("url", Str("/api")),
            Prop("userId", Str("u1"))>>),
      Obj(<<Prop("method", Str("POST")), Prop("url", Str("/login")),
            Prop("body", Obj(<<Prop("email", Str("u@e.co")),
                               Prop("password", Str("secret123"))>>))>>) }

HttpResponseLogs ==
    { Obj(<<Prop("method", Str("GET")), Prop("url", Str("/api")),
            Prop("statusCode", Num(code)), Prop("duration", Num(12))>>)
      : code \in {200, 404, 500} }

ExceptionLogs ==
    { Obj(<<Prop("exceptionType", Str("TypeError")), Prop("message", Str("boom")),
            Prop("stack", Str("at f"))>>),
      Obj(<<Prop("exceptionType", Str("AuthError")),
            Prop("message", Str("bad login u@e.co")), Prop("userId", Str("u1"))>>) }

AuthLogs ==
    { Obj(<<Prop("event", Str("login")), Prop("email", Str("user@example.com")),
            Prop("success", Bool(TRUE))>>),
      Obj(<<Prop("event", Str("login")), Prop("userId", Str("u1")),
            Prop("success", Bool(FALSE))>>) }

PaymentLogs ==
    { Obj(<<Prop("transactionId", Str("tx1")), Prop("operation", Str("charge")),
            Prop("amount", Num(100)), Prop("currency", Str("USD")),
            Prop("paymentMethod", Str("card")), Prop("status", Str(status))>>)
      : status \in {"success", "failed"} }

IsoTimes == {"2026-01-01T00:00:00.000Z"}

\* the values handed to sanitize and containsPII
Secrets ==
    Obj(<<Prop("password", Str("secret123")), Prop("pin", Str("12")),
          Prop("token", Null), Prop("cvv", Num(123)), Prop("otp", Bool(TRUE)),
          Prop("secret", Obj(<<Prop("a", Num(1))>>)),
          Prop("apiKey", Arr(<<Str("k1")>>)), Prop("ssn", Ref(5)),
          Prop("profile", Obj(<<Prop("userPassword", Str("hunter2")),
                                Prop("phone", Str("0912345678"))>>))>>)

Deep ==
    Obj(<<Prop("l1", Obj(<<Prop("l2", Obj(<<Prop("l3", Str("deep")),
                                            Prop("none", Null)>>)),
                           Prop("gone", Null),
                           Prop("password", Str("secret123")),
                           Prop("list", Arr(<<Num(1), Str("u@e.co")>>))>>)),
          Prop("email", Str("u@e.co"))>>)

Special ==
    Obj(<<Prop("when", DateOf(1)), Prop("fn", Func), Prop("buf", Binary),
          Prop("err", ErrorOf("TypeError", "bad login u@e.co", Undefined)),
          Prop("m", MapOf(<<Entry(Str("k@e.co"), Str("v")), Entry(Num(1), Ref(5))>>)),
          Prop("s", SetOf(<<Str("a@b.co"), Str("c@d.co"), Num(2)>>)),
          Prop("wm", Opaque("WeakMap")), Prop("p", Opaque("Promise")),
          Prop("user", Instance("User", <<Prop("name", Str("bob"))>>))>>)

Cycles ==
    Obj(<<Prop("o", Ref(1)), Prop("a", Ref(2)), Prop("m", Ref(3)), Prop("s", Ref(4))>>)

\* one object held under two keys
Shared == Obj(<<Prop("a", Ref(5)), Prop("b", Ref(5))>>)

Values ==
    { Str("mail u@e.co now"), Str("plain"), Num(42), Null,
      Obj(<<Prop("user", Str("u1")), Prop("count", Num(3))>>),
      Secrets, Deep, Special, Cycles,
      Ref(1), Ref(2), Ref(3), Ref(4), Ref(6), Shared }

(***************************************************************************)
(* The calls on the logger                                                 *)
(***************************************************************************)
NoEmit == [n |-> 0, op |-> "new", message |-> "", metadata |-> Undefined]

\* one call of an emitting method: what it was called with, what it handed
\* on, and the lastIndex values it leaves
EmitLeaving(op, message, metadata, record, li) ==
    /\ emitted.n < MaxEmits
    /\ sink' = Append(sink, record)
    /\ emitted' = [n |-> emitted.n + 1, op |-> op, message |-> message,
                   metadata |-> metadata]
    /\ lastIndex' = li
    /\ UNCHANGED <<store, policy, trackVars, ctxVars, maxDepth, san, ruleVars>>

Emit(op, message, metadata, record) ==
    EmitLeaving(op, message, metadata, record, lastIndex)

SetTraceContext ==
    \E metadata \in TraceContexts :
        /\ store' = setTraceContext(store, metadata)
        /\ UNCHANGED <<policy, sink, emitted, trackVars, ctxVars, sanVars, ruleVars>>

SetMaskingPolicy ==
    \E pol \in Policies :
        /\ policy' = pol
        /\ UNCHANGED <<store, sink, emitted, trackVars, ctxVars, sanVars, ruleVars>>

Log ==
    \E message \in Messages, metadata \in Metadatas :
        Emit("log", message, metadata, logInfo(store, message, metadata))

Error ==
    \E message \in Messages, metadata \in Metadatas :
        Emit("error", message, metadata, error(store, message, "", metadata))

Warn ==
    \E message \in Messages, metadata \in Metadatas :
        Emit("warn", message, metadata, warn(store, message, metadata))

Debug ==
    \E message \in Messages, metadata \in Metadatas :
        Emit("debug", message, metadata, debug(store, message, metadata))

Verbose ==
    \E message \in Messages, metadata \in Metadatas :
        Emit("verbose", message, metadata, verbose(store, message, metadata))

Http ==
    \E message \in Messages, metadata \in Metadatas :
        Emit("http", message, metadata, http(store, message, metadata))

LogWithLevel ==
    \E level \in {"info", "debug"},
       message \in Messages, metadata \in Metadatas :
        Emit("logWithLevel", message, metadata,
             logWithLevel(store, level, message, metadata))

HttpRequest ==
    \E l \in HttpRequestLogs :
        EmitLeaving("httpRequest", httpRequestMessage(l), httpRequestMetadata(l),
                    httpRequest(store, policy, maxDepth, l),
                    sanitizeLastIndex(policy, maxDepth, lastIndex, l))

HttpResponse ==
    \E l \in HttpResponseLogs :
        EmitLeaving("httpResponse", httpResponseMessage(l), httpResponseMetadata(l),
                    httpResponse(store, policy, maxDepth, l),
                    sanitizeLastIndex(policy, maxDepth, lastIndex, l))

Exception ==
    \E l \in ExceptionLogs, iso \in IsoTimes :
        Emit("exception", exceptionMessage(l), exceptionMetadata(l, iso),
             exception(store, l, iso))

Auth ==
    \E l \in AuthLogs : Emit("auth", authMessage(l), l, auth(store, l))

Payment ==
    \E l \in PaymentLogs :
        Emit("payment", paymentMessage(l), paymentMetadata(l), payment(store, l))

(***************************************************************************)
(* The executions and their stores.  AsyncLocalStorage keeps one store per *)
(* execution: run(store, fn) gives fn the store and puts the former one    *)
(* back when fn returns; enterWith(store) replaces the store of the        *)
(* running execution; an execution started from another (a callback, the   *)
(* continuation of an await) begins with the store its starter had at      *)
(* that moment.  Executions interleave between their synchronous parts,    *)
(* that is when no run call is on the stack.                               *)
(***************************************************************************)
Tasks == {1, 2, 3}

Context(live, st) == [live |-> live, store |-> st]
NotStarted == Context(FALSE, <<>>)

\* runWithContext(metadata, fn): fn starts
runWithContext(st, metadata) == metadata

\* a variant with one store for all executions
RunWithContextShared ==
    \E metadata \in TraceContexts :
        /\ Len(scopes) < MaxNest
        /\ scopes' = Append(scopes, store)
        /\ store' = runWithContext(store, metadata)
        /\ tasks' = [t \in Tasks |-> IF tasks[t].live THEN Context(TRUE, metadata)
                                     ELSE tasks[t]]
        /\ UNCHANGED <<running, policy, sink, emitted, trackVars, sanVars, ruleVars>>

RunWithContext ==
    \E metadata \in TraceContexts :
        /\ Len(scopes) < MaxNest
        /\ scopes' = Append(scopes, store)
        /\ store' = runWithContext(store, metadata)
        /\ UNCHANGED <<tasks, running, policy, sink, emitted, trackVars, sanVars, ruleVars>>

\* runWithContext(metadata, fn): fn returns
RunReturns ==
    /\ scopes # <<>>
    /\ store' = scopes[Len(scopes)]
    /\ scopes' = SubSeq(scopes, 1, Len(scopes) - 1)
    /\ UNCHANGED <<tasks, running, policy, sink, emitted, trackVars, sanVars, ruleVars>>

\* the running execution starts another one, which waits for its turn
Spawn ==
    \E t \in Tasks \ {running} :
        /\ ~tasks[t].live
        /\ tasks' = [tasks EXCEPT ![t] = Context(TRUE, store)]
        /\ UNCHANGED <<store, scopes, running, policy, sink, emitted, trackVars, sanVars, ruleVars>>

\* the running execution ends its synchronous part, another one runs
Switch ==
    \E t \in Tasks \ {running} :
        /\ tasks[t].live
        /\ scopes = <<>>
        /\ running' = t
        /\ store' = tasks[t].store
        /\ tasks' = [tasks EXCEPT ![t] = NotStarted, ![running] = Context(TRUE, store)]
        /\ UNCHANGED <<scopes, policy, sink, emitted, trackVars, sanVars, ruleVars>>

(***************************************************************************)
(* The calls on the sanitizer                                              *)
(***************************************************************************)
MaxDepths == {1, DEFAULT_MAX_DEPTH}

Call2(op, pol, maxD, data, out) ==
    [op |-> op, pol |-> pol, maxD |-> maxD, data |-> data, out |-> out]

NoCall == Call2("new", createMaskingPolicy("development"), DEFAULT_MAX_DEPTH,
                Undefined, Undefined)

SetPolicy ==
    \E pol \in Policies :
        /\ policy' = pol
        /\ UNCHANGED <<store, sink, emitted, trackVars, ctxVars, sanVars, ruleVars>>

SetMaxDepth ==
    \E depth \in MaxDepths :
        /\ maxDepth' = depth
        /\ UNCHANGED <<lastIndex, san, loggerVars, trackVars, ctxVars, ruleVars>>

Sanitize ==
    \E data \in Values :
        /\ san' = Call2("sanitize", policy, maxDepth, data, sanitize(policy, maxDepth, data))
        /\ lastIndex' = sanitizeLastIndex(policy, maxDepth, lastIndex, data)
        /\ UNCHANGED <<maxDepth, loggerVars, trackVars, ctxVars, ruleVars>>

\* the data handed to containsPII: a string that a literal rule matches as well
PIIValues == Values \cup {Str("my password")}

ContainsPII ==
    \E data \in PIIValues :
        LET found == containsPII(policy, maxDepth, lastIndex, data)
        IN  /\ san' = Call2("containsPII", policy, maxDepth, data, Bool(found.found))
            /\ lastIndex' = found.li
            /\ UNCHANGED <<maxDepth, loggerVars, trackVars, ctxVars, ruleVars>>

(***************************************************************************)
(* Two sanitizers, each built as new DataSanitizer(createMaskingPolicy(env)) *)
(* and the calls on them.                                                  *)
(***************************************************************************)
Sanitizers == {1, 2}

CustomRules ==
    { MaskingRule("city", FALSE, "hanoi", "[CITY]", TRUE),
      MaskingRule("email", FALSE, "plain", "[PLAIN]", TRUE) }

RuleNames == {"email", "city"}

RuleValues ==
    { Str("mail u@e.co now"), Str("plain Hanoi"),
      Obj(<<Prop("user", Str("u1")), Prop("city", Str("Hanoi"))>>) }

\* the policy of sanitizer s, as it reads it now
policyOf(s) == policyWith(maskingRules, sanitizers[s])

RuleCall(by, op, name, data, out) ==
    [by |-> by, op |-> op, name |-> name, data |-> data, out |-> out]

AddCustomRule ==
    \E s \in Sanitizers, rule \in CustomRules :
        /\ Len(sanitizers[s].customRules) < MaxCustom
        /\ sanitizers' = [sanitizers EXCEPT ![s] = addCustomRule(@, rule)]
        /\ san' = RuleCall(s, "addCustomRule", rule.name, Undefined, Undefined)
        /\ UNCHANGED <<maskingRules, maxDepth, lastIndex, loggerVars, trackVars, ctxVars>>

RemoveCustomRule ==
    \E s \in Sanitizers, ruleName \in RuleNames :
        /\ sanitizers' = [sanitizers EXCEPT ![s] = removeCustomRule(@, ruleName)]
        /\ san' = RuleCall(s, "removeCustomRule", ruleName, Undefined, Undefined)
        /\ UNCHANGED <<maskingRules, maxDepth, lastIndex, loggerVars, trackVars, ctxVars>>

ToggleRule ==
    \E s \in Sanitizers, ruleName \in RuleNames, enabled \in BOOLEAN :
        LET pol == toggleRule(policyOf(s), ruleName, enabled)
        IN  /\ maskingRules' = pol.rules
            /\ sanitizers' = [sanitizers EXCEPT ![s] = policyWith(@.rules, pol)]
            /\ san' = RuleCall(s, "toggleRule", ruleName, Bool(enabled), Undefined)
            /\ UNCHANGED <<maxDepth, lastIndex, loggerVars, trackVars, ctxVars>>

\* setPolicy(createMaskingPolicy(env))
SetPolicyOf ==
    \E s \in Sanitizers, env \in Envs :
        /\ sanitizers' = [sanitizers EXCEPT ![s] = createMaskingPolicy(env)]
        /\ san' = RuleCall(s, "setPolicy", env, Undefined, Undefined)
        /\ UNCHANGED <<maskingRules, maxDepth, lastIndex, loggerVars, trackVars, ctxVars>>

SanitizeBy ==
    \E s \in Sanitizers, data \in RuleValues :
        /\ san' = RuleCall(s, "sanitize", "", data, sanitize(policyOf(s), maxDepth, data))
        /\ lastIndex' = sanitizeLastIndex(policyOf(s), maxDepth, lastIndex, data)
        /\ UNCHANGED <<ruleVars, maxDepth, loggerVars, trackVars, ctxVars>>

(***************************************************************************)
(* Specifications                                                          *)
(***************************************************************************)
Fresh ==
    /\ ipStats = <<>>
    /\ accessLogs = <<>>
    /\ blockedIPs = {}
    /\ whitelistedIPs = {}
    /\ userIPHistory = <<>>
    /\ now = 0
    /\ ret = Call("new", "", NoLog, <<>>)
    /\ fed = <<>>

\* the default policy is createMaskingPolicy(NODE_ENV)
FreshLogger(env) ==
    /\ store = <<>>
    /\ policy = createMaskingPolicy(env)
    /\ sink = <<>>
    /\ emitted = NoEmit

FreshContext ==
    /\ scopes = <<>>
    /\ tasks = [t \in Tasks |-> NotStarted]
    /\ running = 1

FreshSanitizer ==
    /\ maxDepth = DEFAULT_MAX_DEPTH
    /\ lastIndex = NoLastIndex
    /\ san = NoCall

\* no sanitizer but defaultSanitizer
FreshRules ==
    /\ maskingRules = DEFAULT_MASKING_RULES
    /\ sanitizers = <<>>

FreshRest == FreshContext /\ FreshSanitizer /\ FreshRules

Init ==
    Fresh /\ FreshLogger("development") /\ FreshRest /\ script = <<>> /\ budget = MaxSteps

InitScen ==
    Fresh /\ FreshLogger("development") /\ FreshRest /\ script \in Scripts
          /\ budget = MaxExtra

\* a tracker that has ingested the traffic of a history, at the time of its
\* last event
InitScore ==
    \E h \in Histories :
        LET tracker == replay(h.past, Len(h.past))
        IN  /\ ipStats = tracker.ipStats
            /\ accessLogs = tracker.accessLogs
            /\ blockedIPs = tracker.blockedIPs
            /\ whitelistedIPs = {}
            /\ userIPHistory = tracker.userIPHistory
            /\ now = h.past[Len(h.past)].timestamp
            /\ ret = Call("trackAccess", IP1, h.past[Len(h.past)],
                          trackAlerts(tracker.accessLogs, tracker.userIPHistory,
                                      replay(h.past, Len(h.past) - 1).blockedIPs, {},
                                      h.past[Len(h.past)], now))
            /\ fed = h.past
            /\ script = h.next
            /\ budget = MaxAfter
            /\ FreshLogger("development")
            /\ FreshRest

InitLog ==
    Fresh /\ FreshRest /\ script = <<>> /\ budget = 0 /\ \E env \in Envs : FreshLogger(env)

InitRules ==
    /\ Fresh /\ FreshLogger("development") /\ FreshContext /\ FreshSanitizer
    /\ script = <<>> /\ budget = 0
    /\ maskingRules = DEFAULT_MASKING_RULES
    /\ sanitizers \in [Sanitizers -> {createMaskingPolicy(env) : env \in Envs}]

InitCtx == InitLog

InitPII == InitLog

InitSan == InitLog

Next ==
    \/ TrackAccess
    \/ BlockIP
    \/ UnblockIP
    \/ WhitelistIP
    \/ RemoveFromWhitelist
    \/ AutoCleanup
    \/ Tick

NextLog ==
    \/ SetTraceContext
    \/ SetMaskingPolicy
    \/ Log
    \/ Error
    \/ Warn
    \/ Debug
    \/ Verbose
    \/ Http
    \/ LogWithLevel
    \/ HttpRequest
    \/ HttpResponse
    \/ Exception
    \/ Auth
    \/ Payment

NextCtx ==
    \/ RunWithContext
    \/ RunReturns
    \/ SetTraceContext
    \/ Spawn
    \/ Switch

NextSan ==
    \/ SetPolicy
    \/ SetMaxDepth
    \/ Sanitize

NextRules ==
    \/ AddCustomRule
    \/ RemoveCustomRule
    \/ ToggleRule
    \/ SetPolicyOf
    \/ SanitizeBy

NextPII ==
    \/ SetPolicy
    \/ SetMaxDepth
    \/ ContainsPII

Spec == Init /\ [][Next]_vars

SpecScen == InitScen /\ [][Next]_vars

SpecScore == InitScore /\ [][Next]_vars

SpecLog == InitLog /\ [][NextLog]_vars

SpecCtx == InitCtx /\ [][NextCtx]_vars

SpecSan == InitSan /\ [][NextSan]_vars

SpecRules == InitRules /\ [][NextRules]_vars

SpecPII == InitPII /\ [][NextPII]_vars

(***************************************************************************)
(* Properties of the access tracker                                        *)
(***************************************************************************)
HasAlert(alerts, type, severity) ==
    \E i \in DOMAIN alerts : alerts[i].type = type /\ alerts[i].severity = severity

HasBlockingAlert(alerts, type) ==
    \E i \in DOMAIN alerts : alerts[i].type = type /\ alerts[i].shouldBlock

\* failed events of log's IP in seq that are less than 5 minutes older than log
FailedWithin(seq, log) ==
    Cardinality({i \in DOMAIN seq :
        /\ seq[i].ip = log.ip
        /\ ~seq[i].success
        /\ log.timestamp - seq[i].timestamp >= 0
        /\ log.timestamp - seq[i].timestamp < BRUTE_FORCE_WINDOW})

\* events of log's IP in seq that are less than 60 s older than log
RequestsWithin(seq, log) ==
    Cardinality({i \in DOMAIN seq :
        /\ seq[i].ip = log.ip
        /\ log.timestamp - seq[i].timestamp >= 0
        /\ log.timestamp - seq[i].timestamp < RATE_LIMIT_WINDOW})

Tracked == ret.op = "trackAccess"

\* trackAccess has just run on an IP that was neither blocked nor whitelisted
TrackedOpen ==
    /\ ret'.op = "trackAccess"
    /\ ret'.log.ip \notin blockedIPs
    /\ ret'.log.ip \notin whitelistedIPs

BruteForceContract(seq) ==
    LET log == ret'.log
    IN  (TrackedOpen /\ ~log.success) =>
            /\ FailedWithin(seq, log) >= FAILED_LOGIN_THRESHOLD
                  => HasAlert(ret'.alerts, "bruteForce", "high")
            /\ FailedWithin(seq, log) >= 2 * FAILED_LOGIN_THRESHOLD
                  => /\ HasBlockingAlert(ret'.alerts, "bruteForce")
                     /\ log.ip \in blockedIPs'

C2_BlockSticky ==
    [][/\ \A x \in blockedIPs :
            x \in blockedIPs' \/ (ret'.op \in {"unblockIP", "whitelistIP"} /\ ret'.ip = x)
       /\ \A x \in whitelistedIPs :
            x \in whitelistedIPs' \/ (ret'.op = "removeFromWhitelist" /\ ret'.ip = x)
       /\ ret'.op \in {"autoCleanup", "trackAccess"} => blockedIPs \subseteq blockedIPs'
       /\ ret'.op = "autoCleanup" =>
            blockedIPs' = blockedIPs /\ whitelistedIPs' = whitelistedIPs]_vars

FedIPs == {fed[i].ip : i \in DOMAIN fed}

\* a blocked IP whose statistics the sweep has evicted
C2_Witness ==
    /\ ret.op = "autoCleanup"
    /\ \E x \in blockedIPs : x \in FedIPs /\ x \notin StatsIPs(ipStats)

\* C3 as claimed: whitelistIP leaves the IP unblocked, and trackAccess of an event
\* from a whitelisted IP returns no alert.
C3_AsClaimed ==
    /\ ret.op = "whitelistIP" => ret.ip \notin blockedIPs
    /\ (Tracked /\ ret.log.ip \in whitelistedIPs) => ret.alerts = <<>>

\* C4: trackAccess of an event from a blocked IP returns exactly the one
\* suspiciousIP/critical alert with should_block = true, leaves the lists alone,
\* and records the event: it is the newest entry of accessLogs and the IP's
\* counters, lastSeen, sets and the user's history include it.
C4_BlockedEarlyReturn ==
    [][LET log == ret'.log
           old == IF log.ip \in StatsIPs(ipStats)
                  THEN getIPStats(ipStats, log.ip) ELSE NewStats(log)
           new == getIPStats(ipStats', log.ip)
       IN  (ret'.op = "trackAccess" /\ log.ip \in blockedIPs) =>
              /\ Len(ret'.alerts) = 1
              /\ ret'.alerts[1].type = "suspiciousIP"
              /\ ret'.alerts[1].severity = "critical"
              /\ ret'.alerts[1].shouldBlock
              /\ blockedIPs' = blockedIPs /\ whitelistedIPs' = whitelistedIPs
              /\ accessLogs'[Len(accessLogs')] = log
              /\ log.ip \in StatsIPs(ipStats')
              /\ new.totalRequests = old.totalRequests + 1
              /\ new.failedRequests + new.successRequests
                    = old.failedRequests + old.successRequests + 1
              /\ new.failedRequests
                    = old.failedRequests + (IF log.success THEN 0 ELSE 1)
              /\ new.lastSeen = log.timestamp
              /\ log.endpoint \in new.endpoints
              /\ log.userAgent # NoUser => log.userAgent \in new.userAgents
              /\ log.userId # NoUser =>
                    /\ log.userId \in new.userIds
                    /\ log.ip \in userIPHistory'[log.userId]]_vars

\* a blocked IP's event on which the brute-force probe would have fired
C4_Witness ==
    /\ Tracked
    /\ Len(ret.alerts) = 1
    /\ ret.alerts[1].type = "suspiciousIP"
    /\ ~ret.log.success
    /\ FailedWithin(accessLogs, ret.log) >= FAILED_LOGIN_THRESHOLD

RateLimitContract(seq) ==
    LET log == ret'.log
    IN  /\ (TrackedOpen /\ RequestsWithin(seq, log) >= RATE_LIMIT_MAX)
               => HasAlert(ret'.alerts, "rateLimitExceeded", "medium")
        /\ (ret'.op = "trackAccess" /\ log.success) => blockedIPs' = blockedIPs

C6_AsClaimed ==
    [][LET log == ret'.log
       IN  (/\ TrackedOpen
            /\ log.success
            /\ log.userId # NoUser
            /\ log.userId \in DOMAIN userIPHistory
            /\ userIPHistory[log.userId] # {}
            /\ log.ip \notin userIPHistory[log.userId])
           => /\ \E i \in DOMAIN ret'.alerts :
                    /\ ret'.alerts[i].type = "newIPForUser"
                    /\ ret'.alerts[i].severity = "low"
                    /\ ret'.alerts[i].previousIPs = userIPHistory[log.userId]
              /\ log.ip \in userIPHistory'[log.userId]]_vars

\* scenario S4 has run alone up to its k-th event
S4(k) ==
    /\ Tracked
    /\ fed = SubSeq(Burst(IP1, 2 * FAILED_LOGIN_THRESHOLD + 1, 60000), 1, k)
    /\ budget = MaxExtra
    /\ now = 0

\* C7 as claimed: failed events one minute apart: events 5 to 9 draw bruteForce/high
\* with the IP unblocked, the 10th draws should_block = true and blocks the IP.
C7_AsClaimed ==
    \A k \in FAILED_LOGIN_THRESHOLD..(2 * FAILED_LOGIN_THRESHOLD) :
        S4(k) =>
            /\ HasAlert(ret.alerts, "bruteForce", "high")
            /\ IF k < 2 * FAILED_LOGIN_THRESHOLD
               THEN IP1 \notin blockedIPs
               ELSE HasBlockingAlert(ret.alerts, "bruteForce") /\ IP1 \in blockedIPs

\* C7: failed events one minute apart: events 5 to 10 each draw one bruteForce/high
\* alert counting 5 failed attempts with should_block = false, and the IP is not
\* blocked.
C7_NeverTenInWindow ==
    \A k \in FAILED_LOGIN_THRESHOLD..(2 * FAILED_LOGIN_THRESHOLD) :
        S4(k) =>
            /\ Len(ret.alerts) = 1
            /\ ret.alerts[1].type = "bruteForce"
            /\ ret.alerts[1].severity = "high"
            /\ ret.alerts[1].count = FAILED_LOGIN_THRESHOLD
            /\ ~ret.alerts[1].shouldBlock
            /\ IP1 \notin blockedIPs

C7_Witness == S4(2 * FAILED_LOGIN_THRESHOLD) /\ IP1 \notin blockedIPs

\* C8: accessLogs never holds more than MAX_LOGS events; a trackAccess on a full log
\* drops exactly the oldest event and keeps the others, in order, before the new one.
C8_RingBounded ==
    [][/\ Len(accessLogs') <= MAX_LOGS
       /\ ret'.op = "trackAccess" =>
            IF Len(accessLogs) >= MAX_LOGS
            THEN /\ Len(accessLogs') = MAX_LOGS
                 /\ \A i \in 1..(MAX_LOGS - 1) : accessLogs'[i] = accessLogs[i + 1]
                 /\ accessLogs'[MAX_LOGS] = ret'.log
            ELSE /\ Len(accessLogs') = Len(accessLogs) + 1
                 /\ \A i \in 1..Len(accessLogs) : accessLogs'[i] = accessLogs[i]
                 /\ accessLogs'[Len(accessLogs')] = ret'.log]_vars

\* a trackAccess that overflowed the log
C8_Witness ==
    /\ Tracked
    /\ now = 0
    /\ Len(fed) > MAX_LOGS
    /\ Len(accessLogs) = MAX_LOGS
    /\ accessLogs[1] = fed[Len(fed) - MAX_LOGS + 1]

\* C9 as claimed: no per-IP set holds more than PER_SET_CAP elements and no user's
\* history more than USER_IP_HISTORY_CAP.
C9_AsClaimed ==
    /\ \A i \in DOMAIN ipStats :
            /\ Cardinality(ipStats[i].endpoints) <= PER_SET_CAP
            /\ Cardinality(ipStats[i].userAgents) <= PER_SET_CAP
            /\ Cardinality(ipStats[i].userIds) <= PER_SET_CAP
    /\ \A u \in DOMAIN userIPHistory :
            Cardinality(userIPHistory[u]) <= USER_IP_HISTORY_CAP

\* C20: for every tracked IP, in every state reached by trackAccess, the
\* cleanup and the block / whitelist operations,
\* totalRequests = failedRequests + successRequests.
C20_TotalIsSum ==
    \A i \in DOMAIN ipStats :
        ipStats[i].totalRequests = ipStats[i].failedRequests + ipStats[i].successRequests

\* an IP with failed and successful requests counted
C20_Witness ==
    \E i \in DOMAIN ipStats :
        ipStats[i].failedRequests >= 1 /\ ipStats[i].successRequests >= 1

\* the events of ip handed to trackAccess so far, in order
FedFrom(ip) == SelectSeq(fed, LAMBDA l : l.ip = ip)

\* no event of ip arrived with a timestamp before that of an earlier one
InOrder(ip) ==
    LET seq == FedFrom(ip)
    IN  \A i, j \in DOMAIN seq : i < j => seq[i].timestamp <= seq[j].timestamp

\* C21 as claimed: for every tracked IP firstSeen <= lastSeen, after any sequence
\* of trackAccess calls.
C21_AsClaimed ==
    \A i \in DOMAIN ipStats : ipStats[i].firstSeen <= ipStats[i].lastSeen

\* C21: for every tracked IP lastSeen is the timestamp of the last event of the IP
\* handed to trackAccess and firstSeen the timestamp of one of its events, and
\* firstSeen <= lastSeen holds when the events of the IP arrived in timestamp order.
C21_FirstSeenInOrder ==
    \A i \in DOMAIN ipStats :
        LET s == ipStats[i]
            seq == FedFrom(s.ip)
        IN  /\ seq # <<>>
            /\ s.lastSeen = seq[Len(seq)].timestamp
            /\ \E k \in DOMAIN seq : s.firstSeen = seq[k].timestamp
            /\ InOrder(s.ip) => s.firstSeen <= s.lastSeen

\* an IP seen twice, five minutes apart, in timestamp order
C21_Witness ==
    \E i \in DOMAIN ipStats :
        /\ InOrder(ipStats[i].ip)
        /\ ipStats[i].totalRequests >= 2
        /\ ipStats[i].firstSeen < ipStats[i].lastSeen

\* the fixed contributions, on the counters and the set sizes of an entry
Contributions(s) ==
    (IF 2 * s.failedRequests > s.totalRequests THEN 30
     ELSE IF 10 * s.failedRequests > 3 * s.totalRequests THEN 15 ELSE 0)
    + (IF Cardinality(s.userAgents) > 10 THEN 20 ELSE 0)
    + (IF Cardinality(s.userIds) > 5 THEN 25 ELSE 0)
    + (IF s.totalRequests > 1000 THEN 15 ELSE 0)
    + (IF Cardinality(s.endpoints) > 50 THEN 10 ELSE 0)

\* C22: after each trackAccess the suspiciousScore of the event's IP is the sum of
\* the fixed contributions on its counters and set sizes as they are then
\* (failure rate > 0.5 gives 30, else > 0.3 gives 15; more than 10 user agents 20;
\* more than 5 user ids 25; more than 1000 requests 15; more than 50 endpoints 10),
\* whatever the score was before, and lies in 0..100.
C22_ScoreIsSum ==
    Tracked =>
        LET s == getIPStats(ipStats, ret.log.ip)
        IN  /\ s.suspiciousScore = Contributions(s)
            /\ s.suspiciousScore \in 0..100

\* every contribution counts, on an entry that scored 30 before
C22_Witness ==
    /\ Tracked
    /\ getIPStats(ipStats, ret.log.ip).suspiciousScore = 100
    /\ Len(fed) = 1001

Swept == ret.op = "autoCleanup"

\* a step of autoCleanup
SweepStep == ret'.op = "autoCleanup"

\* the IPs whose entry is older than the TTL at time t
Stale(stats, t) == {stats[i].ip : i \in {j \in DOMAIN stats : t - stats[j].lastSeen > IP_TTL}}

C24_EvictsOldest ==
    [][(SweepStep /\ Len(ipStats) > MAX_IPS) =>
          LET kept == StatsIPs(ipStats')
              fresh == SelectSeq(ipStats, LAMBDA e : now - e.lastSeen <= IP_TTL)
          IN  /\ Len(ipStats') <= MAX_IPS
              /\ kept \subseteq StatsIPs(ipStats)
              /\ \A i \in DOMAIN ipStats : \A k \in DOMAIN ipStats' :
                    ipStats[i].ip \notin kept => ipStats[i].lastSeen <= ipStats'[k].lastSeen
              /\ Len(ipStats') = IF Len(fresh) > MAX_IPS THEN MAX_IPS ELSE Len(fresh)]_vars

\* the sweep has evicted a fresh entry, for the cap alone
C24_Witness ==
    /\ Swept
    /\ Len(ipStats) = MAX_IPS
    /\ \E i \in DOMAIN fed :
          /\ fed[i].ip \notin StatsIPs(ipStats)
          /\ now - fed[i].timestamp < IP_TTL
          /\ \A k \in DOMAIN fed : fed[k].ip = fed[i].ip => k <= i
          /\ \A k \in DOMAIN ipStats : fed[i].timestamp <= ipStats[k].lastSeen

\* C25: autoCleanup run again right after autoCleanup, at the same clock time,
\* changes nothing: ipStats, userIPHistory, accessLogs and the two lists are as
\* the first run left them.
C25_SweepIdempotent ==
    [][(Swept /\ SweepStep) => UNCHANGED trackerVars]_vars

\* a sweep has dropped an entry and an event and has left others for a second run
C25_Witness ==
    /\ Swept
    /\ ipStats # <<>>
    /\ accessLogs # <<>>
    /\ Len(fed) <= MAX_LOGS
    /\ Len(accessLogs) < Len(fed)
    /\ Cardinality(StatsIPs(ipStats)) < Cardinality(FedIPs)

\* C29 as claimed: in every state reached by blockIP, unblockIP, whitelistIP,
\* removeFromWhitelist, trackAccess and autoCleanup, no IP is both in blockedIPs
\* and in whitelistedIPs.
C29_AsClaimed == blockedIPs \cap whitelistedIPs = {}

\* only trackAccess has run so far, on the events of the scenario
OnlyTracked == Tracked /\ budget = MaxExtra /\ now = 0

\* what the last trackAccess returns, and whether it leaves the IP blocked, when
\* the tracker has been fed the events of that IP alone
Alone(x) ==
    LET own == FedFrom(x)
        before == replay(own, Len(own) - 1)
        after == track(before, own[Len(own)])
    IN  [alerts |-> trackAlerts(after.accessLogs, after.userIPHistory,
                                before.blockedIPs, {}, own[Len(own)], now),
         blocked |-> x \in after.blockedIPs]

\* C30 as claimed: the alerts trackAccess returns for an event of IP x, and
\* whether x is blocked afterwards, are those it returns when the events of the
\* other IPs are left out of the sequence.
C30_AsClaimed ==
    OnlyTracked =>
        /\ ret.alerts = Alone(ret.log.ip).alerts
        /\ (ret.log.ip \in blockedIPs) = Alone(ret.log.ip).blocked

(***************************************************************************)
(* Properties of the logger                                                *)
(***************************************************************************)
\* a step that is one call of an emitting method
EmitStep == emitted'.n = emitted.n + 1

\* C10: every emit (a per-level call or a specialized emitter) hands exactly
\* one record to the sink; the record's message is the emitted message and
\* its metadata is sanitize(merge(trace context, user metadata)), the
\* user's keys overriding those of the trace context.
C10_AsClaimed ==
    [][EmitStep =>
          /\ Len(sink') = Len(sink) + 1
          /\ sink'[Len(sink')].message = emitted'.message
          /\ sink'[Len(sink')].metadata
                 = sanitize(policy, maxDepth, mergeMetadata(store, emitted'.metadata))]_vars

\* the merged metadata of the call a step makes holds PII for the policy
StrictAndPII ==
    /\ policy.strictMode
    /\ containsPII(policy, maxDepth, lastIndex,
                   mergeMetadata(store, emitted'.metadata)).found

\* C11: with strictMode on in the policy, an emit whose merged metadata
\* containsPII fails with a PolicyViolation and hands nothing to the sink;
\* a later emit without PII still reaches the sink.
C11_AsClaimed ==
    [][EmitStep => IF StrictAndPII THEN sink' = sink
                   ELSE Len(sink') = Len(sink) + 1]_vars

(***************************************************************************)
(* Properties of the trace context                                         *)
(***************************************************************************)
\* a step in which a run call starts its fn / in which its fn returns
RunStep == Len(scopes') = Len(scopes) + 1
ReturnStep == Len(scopes') = Len(scopes) - 1

\* C12: a run(child, work) inside the scope of a run(parent, ..) binds the
\* parent's map extended by the child's (the child's keys override, the
\* other keys of the parent stay visible) while work lasts, and the parent's
\* context is bound again, unchanged, once work ends.
C12_AsClaimed ==
    [][/\ RunStep /\ scopes # <<>> =>
              \E child \in TraceContexts : store' = Assign(store, child)
       /\ ReturnStep => store' = scopes[Len(scopes)]]_vars

\* what current() returns in execution t
current(t) == IF t = running THEN getTraceContext(store) ELSE getTraceContext(tasks[t].store)

\* a step in which the running execution calls setTraceContext
SetStep == running' = running /\ tasks' = tasks /\ Len(scopes') = Len(scopes) /\ store' # store

\* C13: executions see independent contexts: whatever the running one does
\* (run, set, starting work, yielding), current() of every other started
\* execution stays what it was, so work started before a run never sees it;
\* a set merges its argument into the store bound for the caller and leaves
\* the stack of run scopes as it is.
C13_Independent ==
    [][/\ \A t \in Tasks : (t # running /\ tasks[t].live) => current(t)' = current(t)
       /\ SetStep => /\ scopes' = scopes
                     /\ \E metadata \in TraceContexts :
                            store' = Assign(getTraceContext(store), metadata)]_vars

\* an execution inside two run calls holds a context, and another started
\* execution holds a different, non-empty one
C13_Witness ==
    /\ Len(scopes) = 2
    /\ \E t \in Tasks \ {running} :
           tasks[t].live /\ tasks[t].store # <<>> /\ tasks[t].store # store

(***************************************************************************)
(* Properties of the sanitizer.  san is the last call, with the policy and *)
(* the maxDepth the sanitizer had when it was made.                        *)
(***************************************************************************)
Sanitized == san.op = "sanitize"

\* sanitize went through the value (the policy is enabled, in production mode)
Masking == Sanitized /\ san.pol.enabled /\ san.pol.mode = "production"

\* C14: under a policy in development mode or with enabled = false,
\* sanitize(v) returns v as it is, whatever rules the policy enables.
C14_Identity ==
    (Sanitized /\ (san.pol.mode = "development" \/ ~san.pol.enabled)) => san.out = san.data

\* a value full of sensitive keys came back untouched under a production
\* policy that is not enabled and whose rules are
C14_Witness ==
    /\ Sanitized /\ san.data = Secrets /\ san.out = Secrets
    /\ ~san.pol.enabled /\ san.pol.mode = "production"
    /\ \E i \in DOMAIN san.pol.rules : san.pol.rules[i].enabled

CIRCULAR == Str("[CIRCULAR]")
MAX_DEPTH_EXCEEDED == Str("[MAX_DEPTH_EXCEEDED]")

container(v) == v.t \in {"object", "array", "map", "set"}

\* v leads back to a node it was reached through (onPath: their identities)
RECURSIVE cyclic(_, _)
cyclic(v, onPath) ==
    IF v.t = "ref" /\ v.n \in onPath THEN TRUE
    ELSE LET node == deref(v)
             path == IF v.t = "ref" THEN onPath \cup {v.n} ELSE onPath
         IN  container(node)
                 /\ \E i \in DOMAIN node.k :
                        cyclic(node.k[i].key, path) \/ cyclic(node.k[i].val, path)

\* out is a finite tree: it names no object by reference
RECURSIVE acyclic(_)
acyclic(out) ==
    /\ out.t # "ref"
    /\ \A i \in DOMAIN out.k : acyclic(out.k[i].key) /\ acyclic(out.k[i].val)

\* wherever v leads back to a node of the path it was reached through, out
\* holds the marker in that place
RECURSIVE backEdgesMarked(_, _, _)
backEdgesMarked(v, out, onPath) ==
    IF v.t = "ref" /\ v.n \in onPath THEN out = CIRCULAR
    ELSE LET node == deref(v)
             path == IF v.t = "ref" THEN onPath \cup {v.n} ELSE onPath
         IN  container(node) =>
                 \A i \in DOMAIN node.k \cap DOMAIN out.k :
                     backEdgesMarked(node.k[i].val, out.k[i].val, path)

RECURSIVE backEdgesCut(_, _, _, _, _)
backEdgesCut(v, out, onPath, depth, maxD) ==
    IF v.t = "ref" /\ v.n \in onPath
    THEN out = IF depth > maxD THEN MAX_DEPTH_EXCEEDED ELSE CIRCULAR
    ELSE LET node == deref(v)
             path == IF v.t = "ref" THEN onPath \cup {v.n} ELSE onPath
         IN  (container(node) /\ out.t = node.t) =>
                 \A i \in DOMAIN node.k \cap DOMAIN out.k :
                     IF node.t = "object" /\ isSensitiveField(node.k[i].key.s)
                     THEN out.k[i].val = Str(maskValue(node.k[i].val))
                     ELSE backEdgesCut(node.k[i].val, out.k[i].val, path, depth + 1, maxD)

RECURSIVE deeper(_, _)
deeper(v, d) ==
    \/ d < 0
    \/ /\ container(deref(v))
       /\ \E i \in DOMAIN deref(v).k :
              deeper(deref(v).k[i].key, d - 1) \/ deeper(deref(v).k[i].val, d - 1)

\* every node of out below level maxD is the depth marker
RECURSIVE endsInMarker(_, _, _)
endsInMarker(out, depth, maxD) ==
    IF depth > maxD THEN out = MAX_DEPTH_EXCEEDED
    ELSE \A i \in DOMAIN out.k :
             /\ out.t = "map" => endsInMarker(out.k[i].key, depth + 1, maxD)
             /\ endsInMarker(out.k[i].val, depth + 1, maxD)

RECURSIVE cutBelow(_, _, _)
cutBelow(out, depth, maxD) ==
    IF depth > maxD THEN out.k = <<>>
    ELSE \A i \in DOMAIN out.k :
             cutBelow(out.k[i].key, depth + 1, maxD) /\ cutBelow(out.k[i].val, depth + 1, maxD)

\* out is v as sanitize is to leave it: down to level maxD strings by the
\* rules, numbers and booleans as they are, values of sensitive keys by the
\* field mask, objects and arrays entry by entry; null and undefined as
\* they are at any level; everything else below level maxD the depth marker
RECURSIVE cutAtDepth(_, _, _, _, _)
cutAtDepth(pol, v, out, depth, maxD) ==
    LET node == deref(v)
    IN  IF node.t \in {"null", "undefined"} THEN out = v
        ELSE IF depth > maxD THEN out = MAX_DEPTH_EXCEEDED
        ELSE IF node.t = "string" THEN out = Str(sanitizeString(pol, node.s))
        ELSE IF node.t \in {"number", "boolean"} THEN out = v
        ELSE IF node.t \in {"object", "array"} /\ out.t = node.t
             THEN \A i \in DOMAIN node.k :
                      /\ i \in DOMAIN out.k
                      /\ out.k[i].key = node.k[i].key
                      /\ IF node.t = "object" /\ isSensitiveField(node.k[i].key.s)
                         THEN out.k[i].val = Str(maskValue(node.k[i].val))
                         ELSE cutAtDepth(pol, node.k[i].val, out.k[i].val, depth + 1, maxD)
        ELSE TRUE

fieldMask(val) ==
    IF val.t \in {"null", "undefined", "number", "boolean"} THEN "***"
    ELSE IF val.t = "string"
         THEN IF Len(val.s) <= 3 THEN "***"
              ELSE SubSeq(val.s, 1, 1) \o "***" \o SubSeq(val.s, Len(val.s), Len(val.s))
         ELSE "***[MASKED]***"

\* in every object of v that out renders as an object, the value under a
\* sensitive key is its field mask
RECURSIVE fieldsMasked(_, _)
fieldsMasked(v, out) ==
    LET node == deref(v)
    IN  (/\ container(node) /\ out.t = node.t
         /\ (node.t \in {"map", "set"} => Len(out.k) = Len(node.k))) =>
            \A i \in DOMAIN node.k :
                /\ i \in DOMAIN out.k
                /\ IF node.t = "object" /\ isSensitiveField(node.k[i].key.s)
                   THEN out.k[i].val = Str(fieldMask(node.k[i].val))
                   ELSE fieldsMasked(node.k[i].val, out.k[i].val)

\* the identities v leads to other than through the value of a sensitive key
RECURSIVE reached(_, _)
RECURSIVE reachedEntries(_, _, _)
reachedEntries(kind, entries, seen) ==
    IF entries = <<>> THEN seen
    ELSE LET e == Head(entries)
             s1 == IF kind = "map" THEN reached(e.key, seen) ELSE seen
             s2 == IF kind = "object" /\ isSensitiveField(e.key.s) THEN s1
                   ELSE reached(e.val, s1)
         IN  reachedEntries(kind, Tail(entries), s2)

reached(v, seen) ==
    IF v.t = "ref" /\ v.n \in seen THEN seen
    ELSE LET node == deref(v)
             s1 == IF v.t = "ref" THEN seen \cup {v.n} ELSE seen
         IN  IF container(node) THEN reachedEntries(node.t, node.k, s1) ELSE s1

C18_AsClaimed ==
    Sanitized => sanitize(san.pol, san.maxD, san.out) = san.out

\* some enabled rule of pol matches somewhere in s
ruleMatches(pol, s) ==
    \E r \in DOMAIN enabledRules(pol), i \in 1..Len(s) :
        matchEnd(enabledRules(pol)[r], s, i) >= i

\* v, free of cycles, is made of primitives, Dates, objects, class
\* instances, arrays, Maps and Sets only; no enabled rule matches a string of
\* it and no key of it is sensitive
RECURSIVE clean(_, _)
clean(pol, v) ==
    LET node == deref(v)
    IN  CASE node.t = "string" -> ~ruleMatches(pol, node.s)
          [] node.t \in {"null", "undefined", "number", "boolean", "date"} -> TRUE
          [] container(node) ->
                \A i \in DOMAIN node.k :
                    /\ node.t = "object" => ~isSensitiveField(node.k[i].key.s)
                    /\ clean(pol, node.k[i].key)
                    /\ clean(pol, node.k[i].val)
          [] OTHER -> FALSE

\* out is structurally equal to v, the __type tag of a class instance aside
RECURSIVE structurallyEqual(_, _)
structurallyEqual(v, out) ==
    LET node == deref(v)
        untagged == IF node.t = "object" /\ node.s # "Object"
                    THEN SelectSeq(out.k, LAMBDA e : e.key # Str("__type"))
                    ELSE out.k
    IN  IF container(node)
        THEN /\ out.t = node.t
             /\ Len(untagged) = Len(node.k)
             /\ \A i \in DOMAIN node.k :
                    /\ structurallyEqual(node.k[i].key, untagged[i].key)
                    /\ structurallyEqual(node.k[i].val, untagged[i].val)
        ELSE out = node

\* C19: when no enabled rule matches any string of v and no key of v is
\* sensitive, sanitize(v) is structurally equal to v, the __type tag of
\* class instances aside (v without cycles and no deeper than maxDepth).
C19_AsClaimed ==
    (/\ Masking
     /\ ~cyclic(san.data, {})
     /\ ~deeper(san.data, san.maxD)
     /\ clean(san.pol, san.data)) => structurallyEqual(san.data, san.out)

(***************************************************************************)
(* Properties of the rules                                                 *)
(***************************************************************************)
\* the rules of a policy, built-in then custom
allRules(pol) == pol.rules \o pol.customRules

\* C26 as claimed: after any sequence of addCustomRule, removeCustomRule,
\* toggleRule and setPolicy calls on a sanitizer, no two rules of its policy
\* (rules and customRules together) have the same name.
C26_AsClaimed ==
    \A s \in DOMAIN sanitizers :
        \A i, j \in DOMAIN allRules(policyOf(s)) :
            i # j => allRules(policyOf(s))[i].name # allRules(policyOf(s))[j].name

\* a step of addCustomRule, removeCustomRule or toggleRule
RuleStep == san'.op \in {"addCustomRule", "removeCustomRule", "toggleRule"}

\* C27 as claimed: of two sanitizers built each from its own
\* createMaskingPolicy() value, addCustomRule, removeCustomRule or toggleRule
\* on one changes neither what sanitize returns nor what containsPII returns
\* on the other.
C27_AsClaimed ==
    [][RuleStep =>
          \A s \in Sanitizers \ {san'.by} : \A v \in RuleValues :
              /\ sanitize(policyOf(s)', maxDepth, v) = sanitize(policyOf(s), maxDepth, v)
              /\ containsPII(policyOf(s)', maxDepth, lastIndex, v).found
                    = containsPII(policyOf(s), maxDepth, lastIndex, v).found]_vars

\* some enabled rule, regular expression or literal, matches a string that v
\* leads to, or a key of an object that v leads to is sensitive
RECURSIVE anyPII(_, _, _)
anyPII(pol, v, onPath) ==
    IF v.t = "ref" /\ v.n \in onPath THEN FALSE
    ELSE LET node == deref(v)
             below == IF v.t = "ref" THEN onPath \cup {v.n} ELSE onPath
         IN  IF node.t = "string" THEN ruleMatches(pol, node.s)
             ELSE /\ container(node)
                  /\ \E i \in DOMAIN node.k :
                        \/ node.t = "object" /\ isSensitiveField(node.k[i].key.s)
                        \/ node.t = "map" /\ anyPII(pol, node.k[i].key, below)
                        \/ anyPII(pol, node.k[i].val, below)

\* C28 as claimed: containsPII(v) returns true exactly when some enabled rule
\* matches some string the traversal reaches or some key it reaches is
\* sensitive, whatever was called before.
C28_AsClaimed ==
    san.op = "containsPII" => (san.out = Bool(anyPII(san.pol, san.data, {})))

====
